---- MODULE Spec2Model ----
(***************************************************************************)
(* Construction Space Engine of the NERV python API: the construction      *)
(* endpoints (validate-step, validate-sequence, execute-sequence), the     *)
(* add-point geometry endpoint and the RustGeometryService bridge with its *)
(* delegated and fallback modes.                                           *)
(*                                                                         *)
(* Python objects are modelled with identity: `heap` holds the             *)
(* ConstructionSpace objects, a reference is an index into it.  The        *)
(* fallback bridge mutates the object it is given; the delegated bridge    *)
(* builds a new object from the engine's response.                         *)
(***************************************************************************)
EXTENDS Integers, Sequences, FiniteSets, TLC

VARIABLES
    rust_binary_path,           \* RustGeometryService.rust_binary_path is set (delegated mode)
    heap,                       \* ConstructionSpace objects, by reference
    uuid_count,                 \* identifiers generated so far (uuid.uuid4())
    client_space,               \* each caller's own space value (JSON on the wire)
    pc,                         \* each caller's position
    initial_construction_space, \* reference: the handler's argument
    current_space,              \* reference: the handler's local
    total_steps,                \* len(sequence.steps)
    execution_results,          \* execute_construction_sequence's list
    validation_results,         \* validate_construction_sequence's list
    response,                   \* the last response returned to the caller
    attempted,                  \* history: calls of _execute_construction_step in this run
    applied_space,              \* history: the space's value after the last applied step
    entry_space,                \* history: the space's value when the handler was entered
    calls,                      \* history: add-point endpoint calls a caller has made
    threaded,                   \* history: those of them that succeeded
    engine_requests,            \* history: requests the caller's handler has sent to the engine
    engine_reply,               \* history: how the engine process of its last request ended
    lifespan_pc,                \* the application's position in lifespan()
    app_state,                  \* the attributes set on app.state
    neo4j_driver,               \* neo4j_service.driver of the global Neo4jService
    connect_returned            \* history: what neo4j_service.connect() returned at startup

vars == <<rust_binary_path, heap, uuid_count, client_space, pc,
          initial_construction_space, current_space, total_steps,
          execution_results, validation_results, response,
          attempted, applied_space, entry_space, calls, threaded,
          engine_requests, engine_reply,
          lifespan_pc, app_state, neo4j_driver, connect_returned>>

\* the application's own state: main.py, neo4j_service.py
app_vars == <<lifespan_pc, app_state, neo4j_driver, connect_returned>>

---------------------------------------------------------------------------
(* Bounds of the model *)

MaxSteps == 3           \* longest sequence submitted
MaxDeps == 3            \* longest dependency list of a step given to validate-step
MaxCalls == 3           \* add-point endpoint calls one caller threads
MaxIntersections == 1   \* points the engine returns for one find_intersections

Callers == {1, 2}

---------------------------------------------------------------------------
(* Data model: rust_bridge.py *)

None == "None"

EmptyDict == [k \in {} |-> k]

\* d[k] = v
DictSet(d, k, v) == [j \in DOMAIN d \cup {k} |-> IF j = k THEN v ELSE d[j]]

\* dict.get(k, default)
DictGet(d, k, default) == IF k \in DOMAIN d THEN d[k] ELSE default

Point(id, x, y, label, is_constructed, dependencies) ==
    [id |-> id, x |-> x, y |-> y, label |-> label,
     is_constructed |-> is_constructed, dependencies |-> dependencies]

Line(id, point1_id, point2_id, label, dependencies) ==
    [id |-> id, point1_id |-> point1_id, point2_id |-> point2_id,
     label |-> label, dependencies |-> dependencies]

Circle(id, center_id, radius_point_id, label, dependencies) ==
    [id |-> id, center_id |-> center_id, radius_point_id |-> radius_point_id,
     label |-> label, dependencies |-> dependencies]

\* ConstructionSpace(): the defaults
ConstructionSpace ==
    [points |-> EmptyDict, lines |-> EmptyDict, circles |-> EmptyDict, history |-> <<>>]

\* str(uuid.uuid4()): the n-th identifier generated; never one a caller wrote down before
Uuid(n) == "uuid-" \o ToString(n)

ConstructionStep(step_type, dependencies, metadata) ==
    [step_type |-> step_type, dependencies |-> dependencies, metadata |-> metadata]

---------------------------------------------------------------------------
(* Inputs *)

\* one executed step: the action and the identifiers it created
HistoryRecord(action, ids) == [action |-> action, created |-> ids]

PointA == Point("A", 0, 0, "A", FALSE, <<>>)
PointB == Point("B", 100, 0, "B", FALSE, <<>>)

\* a space holding point A only
SpaceA ==
    [points |-> DictSet(EmptyDict, "A", PointA), lines |-> EmptyDict,
     circles |-> EmptyDict, history |-> <<HistoryRecord("add_point", <<"A">>)>>]

\* a space with points A, B, line L and circle K on them
SpaceABLK ==
    [points |-> DictSet(DictSet(EmptyDict, "A", PointA), "B", PointB),
     lines |-> DictSet(EmptyDict, "L", Line("L", "A", "B", None, <<"A", "B">>)),
     circles |-> DictSet(EmptyDict, "K", Circle("K", "A", "B", None, <<"A", "B">>)),
     history |-> <<HistoryRecord("add_point", <<"A">>), HistoryRecord("add_point", <<"B">>),
                   HistoryRecord("construct_line", <<"L">>),
                   HistoryRecord("construct_circle", <<"K">>)>>]

InitSpaces == {ConstructionSpace, SpaceA, SpaceABLK}

StepTypes ==
    {"add_point", "construct_line", "construct_circle", "find_intersections", "given_points"}

\* identifiers a caller writes in a step: A, B points, L a line, Z never present
DepNames == {"A", "B", "L", "Z"}

SeqsUpTo(S, n) == UNION {[1..k -> S] : k \in 0..n}

EmptyMeta == EmptyDict
MetaA == [k \in {"x", "y", "label"} |-> CASE k = "x" -> 0 [] k = "y" -> 0 [] OTHER -> "A"]
MetaB == [k \in {"x", "y", "label"} |-> CASE k = "x" -> 100 [] k = "y" -> 0 [] OTHER -> "B"]

\* the steps given to validate-step
StepInputs ==
    {ConstructionStep(t, d, EmptyMeta) : t \in StepTypes, d \in SeqsUpTo(DepNames, MaxDeps)}

\* the steps a submitted sequence is made of
SequenceStepInputs ==
    {ConstructionStep("add_point", <<>>, m) : m \in {EmptyMeta, MetaA, MetaB}}
    \cup {ConstructionStep("add_point", <<"Z">>, EmptyMeta),
          ConstructionStep("given_points", <<>>, EmptyMeta)}
    \cup {ConstructionStep(t, d, EmptyMeta) :
            t \in {"construct_line", "construct_circle"},
            d \in {<<>>, <<"A">>, <<"A", "B">>, <<"A", "A">>, <<"A", "Z">>,
                   <<"L", "A">>, <<"A", "B", "A">>}}
    \cup {ConstructionStep("find_intersections", d, EmptyMeta) :
            d \in {<<"L", "K">>, <<"Z", "Z">>, <<"A">>, <<"A", "B", "L">>}}

---------------------------------------------------------------------------
(* The geometry engine process and the wire protocol *)

\* what one run of the engine process does with the request
Replies ==
    {[kind |-> "ok", found |-> n] : n \in 0..MaxIntersections}
    \cup {[kind |-> k, found |-> 0] :
            k \in {"nonzero_exit", "empty_output", "unparseable", "spawn_failed"}}

\* construction_space.dict()
SpaceDict(space) ==
    [points |-> [id \in DOMAIN space.points |-> space.points[id]],
     lines |-> [id \in DOMAIN space.lines |-> space.lines[id]],
     circles |-> [id \in DOMAIN space.circles |-> space.circles[id]],
     history |-> [k \in 1..Len(space.history) |-> space.history[k]]]

\* Point(**d), Line(**d), Circle(**d): the fields of the model, defaults for
\* the optional ones that are absent, anything else ignored
ParsePoint(d) ==
    Point(d.id, d.x, d.y, DictGet(d, "label", None), DictGet(d, "is_constructed", FALSE),
          DictGet(d, "dependencies", <<>>))

ParseLine(d) ==
    Line(d.id, d.point1_id, d.point2_id, DictGet(d, "label", None),
         DictGet(d, "dependencies", <<>>))

ParseCircle(d) ==
    Circle(d.id, d.center_id, d.radius_point_id, DictGet(d, "label", None),
           DictGet(d, "dependencies", <<>>))

\* ConstructionSpace(**d) keeping the objects and leaving the history at its default
ParseConstructionSpaceWithoutHistory(d) ==
    LET points == DictGet(d, "points", EmptyDict)
        lines == DictGet(d, "lines", EmptyDict)
        circles == DictGet(d, "circles", EmptyDict)
    IN  [points |-> [id \in DOMAIN points |-> ParsePoint(points[id])],
         lines |-> [id \in DOMAIN lines |-> ParseLine(lines[id])],
         circles |-> [id \in DOMAIN circles |-> ParseCircle(circles[id])],
         history |-> <<>>]

\* ConstructionSpace(**result["construction_space"])
ParseConstructionSpace(d) ==
    LET points == DictGet(d, "points", EmptyDict)
        lines == DictGet(d, "lines", EmptyDict)
        circles == DictGet(d, "circles", EmptyDict)
    IN  [points |-> [id \in DOMAIN points |-> ParsePoint(points[id])],
         lines |-> [id \in DOMAIN lines |-> ParseLine(lines[id])],
         circles |-> [id \in DOMAIN circles |-> ParseCircle(circles[id])],
         history |-> DictGet(d, "history", <<>>)]

AllIds(space) == DOMAIN space.points \cup DOMAIN space.lines \cup DOMAIN space.circles

\* the engine's verdict on a step: the validator's rules, in order
EngineValidate(space, step) ==
    LET deps == step.dependencies
        resolved == \A k \in DOMAIN deps : deps[k] \in AllIds(space)
    IN  /\ resolved
        /\ step.step_type \in {"construct_line", "construct_circle"}
              => (Len(deps) = 2 /\ deps[1] # deps[2])
        /\ step.step_type = "find_intersections" => Len(deps) = 2

\* the points the engine adds for an intersection: constructed, depending on the two objects
EngineIntersections(command, n, found) ==
    [k \in 1..found |->
        Point(Uuid(n + k), 0, 0, None, TRUE, <<command.obj1_id, command.obj2_id>>)]

RECURSIVE AddPoints(_, _)
AddPoints(points, new) ==
    IF new = <<>> THEN points
    ELSE AddPoints(DictSet(points, new[1].id, new[1]), Tail(new))

\* the engine refuses a request it cannot carry out
EngineAccepts(command) ==
    command.command = "find_intersections"
        => {command.obj1_id, command.obj2_id} \subseteq AllIds(command.construction_space)

\* the engine's response to an accepted request; n identifiers exist already
RustEngine(command, n, found) ==
    LET space == command.construction_space
        id == Uuid(n + 1)
        record == HistoryRecord(command.command, <<id>>)
    IN  CASE command.command = "add_point" ->
              [point_id |-> id,
               construction_space |->
                  [space EXCEPT
                     !.points = DictSet(@, id,
                                  Point(id, command.x, command.y, command.label, FALSE, <<>>)),
                     !.history = Append(@, record)]]
          [] command.command = "construct_line" ->
              [line_id |-> id,
               construction_space |->
                  [space EXCEPT
                     !.lines = DictSet(@, id,
                                  Line(id, command.point1_id, command.point2_id, command.label,
                                       <<command.point1_id, command.point2_id>>)),
                     !.history = Append(@, record)]]
          [] command.command = "construct_circle" ->
              [circle_id |-> id,
               construction_space |->
                  [space EXCEPT
                     !.circles = DictSet(@, id,
                                  Circle(id, command.center_id, command.radius_point_id,
                                         command.label,
                                         <<command.center_id, command.radius_point_id>>)),
                     !.history = Append(@, record)]]
          [] command.command = "find_intersections" ->
              LET new == EngineIntersections(command, n, found)
              IN  [intersections |-> new,
                   construction_space |->
                      [space EXCEPT
                         !.points = AddPoints(@, new),
                         !.history =
                            Append(@, HistoryRecord("find_intersections",
                                                    [k \in 1..found |-> new[k].id]))]]
          [] command.command = "validate_construction" ->
              [is_valid |-> EngineValidate(space, command.step)]
          [] command.command = "health_check" ->
              \* an engine that runs but is not in order answers another status:
              \* the reply's number stands for it
              [status |-> IF found = 0 THEN "healthy" ELSE "degraded"]
          [] OTHER -> [construction_space |-> ConstructionSpace]

\* identifiers the engine generated for the response
EngineGenerated(command, found) ==
    CASE command.command \in {"add_point", "construct_line", "construct_circle"} -> 1
      [] command.command = "find_intersections" -> found
      [] OTHER -> 0

\* _execute_rust_command without the test of an empty output
_execute_rust_command_accepting_empty(command, n, reply) ==
    IF reply.kind = "spawn_failed"
    THEN [ok |-> FALSE, uuid_count |-> n,
          message |-> "Geometry engine error: Failed to execute Rust command: "
                      \o "the process could not be started"]
    ELSE IF reply.kind = "nonzero_exit" \/ ~EngineAccepts(command)
    THEN [ok |-> FALSE, uuid_count |-> n,
          message |-> "Geometry engine error: Failed to execute Rust command: "
                      \o "Geometry engine error: Rust command failed: Unknown error"]
    ELSE IF reply.kind = "unparseable"
    THEN [ok |-> FALSE, uuid_count |-> n,
          message |-> "Geometry engine error: Failed to parse Rust engine response"]
    ELSE [ok |-> TRUE, uuid_count |-> n + EngineGenerated(command, reply.found),
          message |-> "", result |-> RustEngine(command, n, reply.found)]

\* RustGeometryService._execute_rust_command: one process, one request, one response
_execute_rust_command(command, n, reply) ==
    IF reply.kind = "spawn_failed"
    THEN [ok |-> FALSE, uuid_count |-> n,
          message |-> "Geometry engine error: Failed to execute Rust command: "
                      \o "the process could not be started"]
    ELSE IF reply.kind = "nonzero_exit" \/ ~EngineAccepts(command)
    THEN [ok |-> FALSE, uuid_count |-> n,
          message |-> "Geometry engine error: Failed to execute Rust command: "
                      \o "Geometry engine error: Rust command failed: Unknown error"]
    ELSE IF reply.kind = "empty_output"
    THEN [ok |-> FALSE, uuid_count |-> n,
          message |-> "Geometry engine error: Failed to execute Rust command: "
                      \o "Geometry engine error: Empty response from Rust engine"]
    ELSE IF reply.kind = "unparseable"
    THEN [ok |-> FALSE, uuid_count |-> n,
          message |-> "Geometry engine error: Failed to parse Rust engine response"]
    ELSE [ok |-> TRUE, uuid_count |-> n + EngineGenerated(command, reply.found),
          message |-> "", result |-> RustEngine(command, n, reply.found)]

---------------------------------------------------------------------------
(* RustGeometryService: rust_bridge.py *)

\* what a bridge method hands back: a return value or a raised exception
Returned(created, intersections, space, h, n) ==
    [ok |-> TRUE, kind |-> "", message |-> "", created |-> created,
     intersections |-> intersections, space |-> space, heap |-> h, uuid_count |-> n]

Raised(kind, message, h, n) ==
    [ok |-> FALSE, kind |-> kind, message |-> message, created |-> <<>>,
     intersections |-> <<>>, space |-> 0, heap |-> h, uuid_count |-> n]

\* core/exceptions.py
GeometryEngineError(message, h, n) ==
    Raised("GeometryEngineError", "Geometry engine error: " \o message, h, n)

ConstructionValidationError(message, h, n) ==
    Raised("ConstructionValidationError", "Construction validation failed: " \o message, h, n)

\* updated_space = ConstructionSpace(**result["construction_space"]): a new object
NewSpace(h, d) == Append(h, ParseConstructionSpace(d))

\* add_point storing the new point under its label instead of the generated identifier
add_point_keyed_by_label(h, cs, x, y, label, path, n, reply) ==
    IF ~path
    THEN LET point_id == Uuid(n + 1)
             point == Point(point_id, x, y, label, FALSE, <<>>)
         IN  Returned(<<point_id>>, <<>>, cs,
                      [h EXCEPT ![cs].points = DictSet(@, label, point)], n + 1)
    ELSE LET r == _execute_rust_command(
                     [command |-> "add_point", construction_space |-> SpaceDict(h[cs]),
                      x |-> x, y |-> y, label |-> label], n, reply)
         IN  IF r.ok
             THEN Returned(<<r.result.point_id>>, <<>>, Len(h) + 1,
                           NewSpace(h, r.result.construction_space), r.uuid_count)
             ELSE GeometryEngineError("Failed to add point: " \o r.message, h, n)

\* RustGeometryService.add_point(construction_space, x, y, label)
add_point(h, cs, x, y, label, path, n, reply) ==
    IF ~path
    THEN LET point_id == Uuid(n + 1)
             point == Point(point_id, x, y, label, FALSE, <<>>)
         IN  Returned(<<point_id>>, <<>>, cs,
                      [h EXCEPT ![cs].points = DictSet(@, point_id, point)], n + 1)
    ELSE LET r == _execute_rust_command(
                     [command |-> "add_point", construction_space |-> SpaceDict(h[cs]),
                      x |-> x, y |-> y, label |-> label], n, reply)
         IN  IF r.ok
             THEN Returned(<<r.result.point_id>>, <<>>, Len(h) + 1,
                           NewSpace(h, r.result.construction_space), r.uuid_count)
             ELSE GeometryEngineError("Failed to add point: " \o r.message, h, n)

\* construct_line storing the line before it rejects identical points
construct_line_stored_first(h, cs, point1_id, point2_id, label, path, n, reply) ==
    IF point1_id \notin DOMAIN h[cs].points
    THEN GeometryEngineError("Point not found: " \o point1_id, h, n)
    ELSE IF point2_id \notin DOMAIN h[cs].points
    THEN GeometryEngineError("Point not found: " \o point2_id, h, n)
    ELSE LET line_id == Uuid(n + 1)
             line == Line(line_id, point1_id, point2_id, label, <<point1_id, point2_id>>)
             stored == [h EXCEPT ![cs].lines = DictSet(@, line_id, line)]
         IN  IF point1_id = point2_id
             THEN GeometryEngineError("Cannot create line with identical points", stored, n + 1)
             ELSE IF ~path
             THEN Returned(<<line_id>>, <<>>, cs, stored, n + 1)
             ELSE LET r == _execute_rust_command(
                              [command |-> "construct_line",
                               construction_space |-> SpaceDict(h[cs]),
                               point1_id |-> point1_id, point2_id |-> point2_id,
                               label |-> label], n, reply)
                  IN  IF r.ok
                      THEN Returned(<<r.result.line_id>>, <<>>, Len(h) + 1,
                                    NewSpace(h, r.result.construction_space), r.uuid_count)
                      ELSE GeometryEngineError("Failed to construct line: " \o r.message, h, n)

\* construct_line leaving the checks of the two points to the engine in delegated mode
construct_line_delegating_unchecked(h, cs, point1_id, point2_id, label, path, n, reply) ==
    IF path
    THEN LET r == _execute_rust_command(
                     [command |-> "construct_line", construction_space |-> SpaceDict(h[cs]),
                      point1_id |-> point1_id, point2_id |-> point2_id, label |-> label],
                     n, reply)
         IN  IF r.ok
             THEN Returned(<<r.result.line_id>>, <<>>, Len(h) + 1,
                           NewSpace(h, r.result.construction_space), r.uuid_count)
             ELSE GeometryEngineError("Failed to construct line: " \o r.message, h, n)
    ELSE IF point1_id \notin DOMAIN h[cs].points
    THEN GeometryEngineError("Point not found: " \o point1_id, h, n)
    ELSE IF point2_id \notin DOMAIN h[cs].points
    THEN GeometryEngineError("Point not found: " \o point2_id, h, n)
    ELSE IF point1_id = point2_id
    THEN GeometryEngineError("Cannot create line with identical points", h, n)
    ELSE LET line_id == Uuid(n + 1)
             line == Line(line_id, point1_id, point2_id, label, <<point1_id, point2_id>>)
         IN  Returned(<<line_id>>, <<>>, cs,
                      [h EXCEPT ![cs].lines = DictSet(@, line_id, line)], n + 1)

\* RustGeometryService.construct_line(construction_space, point1_id, point2_id, label)
construct_line(h, cs, point1_id, point2_id, label, path, n, reply) ==
    IF point1_id \notin DOMAIN h[cs].points
    THEN GeometryEngineError("Point not found: " \o point1_id, h, n)
    ELSE IF point2_id \notin DOMAIN h[cs].points
    THEN GeometryEngineError("Point not found: " \o point2_id, h, n)
    ELSE IF point1_id = point2_id
    THEN GeometryEngineError("Cannot create line with identical points", h, n)
    ELSE IF ~path
    THEN LET line_id == Uuid(n + 1)
             line == Line(line_id, point1_id, point2_id, label, <<point1_id, point2_id>>)
         IN  Returned(<<line_id>>, <<>>, cs,
                      [h EXCEPT ![cs].lines = DictSet(@, line_id, line)], n + 1)
    ELSE LET r == _execute_rust_command(
                     [command |-> "construct_line", construction_space |-> SpaceDict(h[cs]),
                      point1_id |-> point1_id, point2_id |-> point2_id, label |-> label],
                     n, reply)
         IN  IF r.ok
             THEN Returned(<<r.result.line_id>>, <<>>, Len(h) + 1,
                           NewSpace(h, r.result.construction_space), r.uuid_count)
             ELSE GeometryEngineError("Failed to construct line: " \o r.message, h, n)

\* construct_circle without the checks of its two points
construct_circle_unchecked(h, cs, center_id, radius_point_id, label, path, n, reply) ==
    IF ~path
    THEN LET circle_id == Uuid(n + 1)
             circle == Circle(circle_id, center_id, radius_point_id, label,
                              <<center_id, radius_point_id>>)
         IN  Returned(<<circle_id>>, <<>>, cs,
                      [h EXCEPT ![cs].circles = DictSet(@, circle_id, circle)], n + 1)
    ELSE LET r == _execute_rust_command(
                     [command |-> "construct_circle", construction_space |-> SpaceDict(h[cs]),
                      center_id |-> center_id, radius_point_id |-> radius_point_id,
                      label |-> label], n, reply)
         IN  IF r.ok
             THEN Returned(<<r.result.circle_id>>, <<>>, Len(h) + 1,
                           NewSpace(h, r.result.construction_space), r.uuid_count)
             ELSE GeometryEngineError("Failed to construct circle: " \o r.message, h, n)

\* RustGeometryService.construct_circle(construction_space, center_id, radius_point_id, label)
construct_circle(h, cs, center_id, radius_point_id, label, path, n, reply) ==
    IF center_id \notin DOMAIN h[cs].points
    THEN GeometryEngineError("Point not found: " \o center_id, h, n)
    ELSE IF radius_point_id \notin DOMAIN h[cs].points
    THEN GeometryEngineError("Point not found: " \o radius_point_id, h, n)
    ELSE IF center_id = radius_point_id
    THEN GeometryEngineError("Center and radius point cannot be the same", h, n)
    ELSE IF ~path
    THEN LET circle_id == Uuid(n + 1)
             circle == Circle(circle_id, center_id, radius_point_id, label,
                              <<center_id, radius_point_id>>)
         IN  Returned(<<circle_id>>, <<>>, cs,
                      [h EXCEPT ![cs].circles = DictSet(@, circle_id, circle)], n + 1)
    ELSE LET r == _execute_rust_command(
                     [command |-> "construct_circle", construction_space |-> SpaceDict(h[cs]),
                      center_id |-> center_id, radius_point_id |-> radius_point_id,
                      label |-> label], n, reply)
         IN  IF r.ok
             THEN Returned(<<r.result.circle_id>>, <<>>, Len(h) + 1,
                           NewSpace(h, r.result.construction_space), r.uuid_count)
             ELSE GeometryEngineError("Failed to construct circle: " \o r.message, h, n)

\* find_intersections whose fallback reports one point and stores it in the space
find_intersections_adding_point(h, cs, obj1_id, obj2_id, path, n, reply) ==
    IF ~path
    THEN LET point == Point(Uuid(n + 1), 0, 0, None, TRUE, <<obj1_id, obj2_id>>)
         IN  Returned(<<>>, <<point>>, cs,
                      [h EXCEPT ![cs].points = DictSet(@, point.id, point)], n + 1)
    ELSE LET r == _execute_rust_command(
                     [command |-> "find_intersections",
                      construction_space |-> SpaceDict(h[cs]),
                      obj1_id |-> obj1_id, obj2_id |-> obj2_id], n, reply)
         IN  IF r.ok
             THEN Returned(<<>>, r.result.intersections, Len(h) + 1,
                           NewSpace(h, r.result.construction_space), r.uuid_count)
             ELSE GeometryEngineError("Failed to find intersections: " \o r.message, h, n)

\* RustGeometryService.find_intersections(construction_space, obj1_id, obj2_id)
find_intersections(h, cs, obj1_id, obj2_id, path, n, reply) ==
    IF ~path
    THEN Returned(<<>>, <<>>, cs, h, n)
    ELSE LET r == _execute_rust_command(
                     [command |-> "find_intersections",
                      construction_space |-> SpaceDict(h[cs]),
                      obj1_id |-> obj1_id, obj2_id |-> obj2_id], n, reply)
         IN  IF r.ok
             THEN Returned(<<>>, r.result.intersections, Len(h) + 1,
                           NewSpace(h, r.result.construction_space), r.uuid_count)
             ELSE GeometryEngineError("Failed to find intersections: " \o r.message, h, n)

\* create_construction_space answering a failed call with a space that is not empty
create_construction_space_stale(path, reply) ==
    IF path /\ reply.kind = "ok"
    THEN ParseConstructionSpace(
            _execute_rust_command([command |-> "create_construction_space"], 0,
                                  reply).result.construction_space)
    ELSE SpaceA

\* RustGeometryService.create_construction_space(): never raises
create_construction_space(path, reply) ==
    IF ~path
    THEN ConstructionSpace
    ELSE LET r == _execute_rust_command([command |-> "create_construction_space"], 0, reply)
         IN  IF r.ok THEN ParseConstructionSpace(r.result.construction_space)
             ELSE ConstructionSpace

\* health_check reporting health whenever the engine process could be started
health_check_of_spawn(path, reply) ==
    IF ~path THEN TRUE ELSE reply.kind # "spawn_failed"

\* RustGeometryService.health_check()
health_check(path, reply) ==
    IF ~path
    THEN TRUE
    ELSE LET r == _execute_rust_command([command |-> "health_check"], 0, reply)
         IN  r.ok /\ DictGet(r.result, "status", None) = "healthy"

\* validate_construction looking the dependencies up among the lines
validate_construction_in_lines(space, step, path, reply) ==
    IF ~path
    THEN [ok |-> TRUE,
          is_valid |->
             IF step.step_type = "add_point" THEN TRUE
             ELSE IF step.step_type \in {"construct_line", "construct_circle"}
             THEN \A k \in DOMAIN step.dependencies :
                     step.dependencies[k] \in DOMAIN space.lines
             ELSE TRUE]
    ELSE LET r == _execute_rust_command(
                     [command |-> "validate_construction",
                      construction_space |-> SpaceDict(space), step |-> step], 0, reply)
         IN  IF r.ok THEN [ok |-> TRUE, is_valid |-> r.result.is_valid]
             ELSE [ok |-> FALSE, is_valid |-> FALSE]

\* RustGeometryService.validate_construction(construction_space, step)
validate_construction(space, step, path, reply) ==
    IF ~path
    THEN [ok |-> TRUE,
          is_valid |->
             IF step.step_type = "add_point" THEN TRUE
             ELSE IF step.step_type \in {"construct_line", "construct_circle"}
             THEN \A k \in DOMAIN step.dependencies :
                     step.dependencies[k] \in DOMAIN space.points
             ELSE TRUE]
    ELSE LET r == _execute_rust_command(
                     [command |-> "validate_construction",
                      construction_space |-> SpaceDict(space), step |-> step], 0, reply)
         IN  IF r.ok THEN [ok |-> TRUE, is_valid |-> r.result.is_valid]
             ELSE [ok |-> FALSE, is_valid |-> FALSE]

\* the ways a run of the engine process fails
FailureKinds == {"nonzero_exit", "empty_output", "unparseable", "spawn_failed"}

\* the text _execute_rust_command raises for each of them
CommandFailure(kind) ==
    _execute_rust_command([command |-> "health_check"], 0, [kind |-> kind, found |-> 0]).message

\* except Exception as e: raise GeometryEngineError(f"Failed to ...: {str(e)}")
DelegationFailures ==
    {"Geometry engine error: " \o failed \o CommandFailure(kind) :
        failed \in {"Failed to add point: ", "Failed to construct line: ",
                    "Failed to construct circle: ", "Failed to find intersections: "},
        kind \in FailureKinds}

\* the same for validate_construction, which has no check before its request
ValidateReply(v, path, reply) ==
    IF ~path THEN "none" ELSE IF v.ok THEN "ok" ELSE reply.kind

\* the bridge method reached its _execute_rust_command: it hands back the
\* engine's answer, or the error of its except clause
SentRequest(out, path) == path /\ (out.ok \/ out.message \in DelegationFailures)

\* how the engine process run for the call ended; an engine that refuses the
\* request exits with a nonzero code
EngineReply(out, path, reply) ==
    IF ~SentRequest(out, path) THEN "none"
    ELSE IF out.ok THEN "ok"
    ELSE IF reply.kind = "ok" THEN "nonzero_exit"
    ELSE reply.kind

---------------------------------------------------------------------------
(* Construction endpoints: construction.py *)

RequiredObjectMissing(dep_id) ==
    "Required object '" \o dep_id \o "' does not exist in construction space"

\* _get_validation_suggestions(step, construction_space)
_get_validation_suggestions(step, space) ==
    LET deps == step.dependencies
        missing == SelectSeq(deps, LAMBDA dep_id : dep_id \notin AllIds(space))
        existence == [k \in 1..Len(missing) |-> RequiredObjectMissing(missing[k])]
        specific ==
            IF step.step_type = "construct_line"
            THEN IF Len(deps) # 2
                 THEN <<"Line construction requires exactly 2 point dependencies">>
                 ELSE IF deps[1] = deps[2]
                 THEN <<"Cannot construct line with identical points">>
                 ELSE <<>>
            ELSE IF step.step_type = "construct_circle"
            THEN IF Len(deps) # 2
                 THEN <<"Circle construction requires exactly 2 point dependencies (center and radius point)">>
                 ELSE IF deps[1] = deps[2]
                 THEN <<"Center and radius point cannot be the same">>
                 ELSE <<>>
            ELSE <<>>
    IN  existence \o specific

\* the dict _execute_construction_step returns
StepResult(type, out) ==
    [type |-> type, created_id |-> out.created, intersections |-> out.intersections,
     updated_space |-> out.space]

NoResult == [type |-> "none", created_id |-> <<>>, intersections |-> <<>>, updated_space |-> 0]

\* _execute_construction_step taking a step of another type as one that does nothing
_execute_construction_step_skipping_unknown(step, h, cs, path, n, reply) ==
    LET deps == step.dependencies
        label == DictGet(step.metadata, "label", None)
    IN  IF step.step_type = "add_point"
        THEN [type |-> "point",
              out |-> add_point(h, cs, DictGet(step.metadata, "x", 0),
                                DictGet(step.metadata, "y", 0), label, path, n, reply)]
        ELSE IF step.step_type = "construct_line"
        THEN [type |-> "line",
              out |-> IF Len(deps) # 2
                      THEN ConstructionValidationError("Line requires exactly 2 points", h, n)
                      ELSE construct_line(h, cs, deps[1], deps[2], label, path, n, reply)]
        ELSE IF step.step_type = "construct_circle"
        THEN [type |-> "circle",
              out |-> IF Len(deps) # 2
                      THEN ConstructionValidationError("Circle requires exactly 2 points", h, n)
                      ELSE construct_circle(h, cs, deps[1], deps[2], label, path, n, reply)]
        ELSE IF step.step_type = "find_intersections"
        THEN [type |-> "intersections",
              out |-> IF Len(deps) # 2
                      THEN ConstructionValidationError(
                               "Intersection requires exactly 2 geometric objects", h, n)
                      ELSE find_intersections(h, cs, deps[1], deps[2], path, n, reply)]
        ELSE [type |-> "none", out |-> Returned(<<>>, <<>>, cs, h, n)]

\* _execute_construction_step using the first two dependencies of a longer list
_execute_construction_step_taking_first_two(step, h, cs, path, n, reply) ==
    LET deps == step.dependencies
        label == DictGet(step.metadata, "label", None)
    IN  IF step.step_type = "add_point"
        THEN [type |-> "point",
              out |-> add_point(h, cs, DictGet(step.metadata, "x", 0),
                                DictGet(step.metadata, "y", 0), label, path, n, reply)]
        ELSE IF step.step_type = "construct_line"
        THEN [type |-> "line",
              out |-> IF Len(deps) < 2
                      THEN ConstructionValidationError("Line requires exactly 2 points", h, n)
                      ELSE construct_line(h, cs, deps[1], deps[2], label, path, n, reply)]
        ELSE IF step.step_type = "construct_circle"
        THEN [type |-> "circle",
              out |-> IF Len(deps) < 2
                      THEN ConstructionValidationError("Circle requires exactly 2 points", h, n)
                      ELSE construct_circle(h, cs, deps[1], deps[2], label, path, n, reply)]
        ELSE IF step.step_type = "find_intersections"
        THEN [type |-> "intersections",
              out |-> IF Len(deps) < 2
                      THEN ConstructionValidationError(
                               "Intersection requires exactly 2 geometric objects", h, n)
                      ELSE find_intersections(h, cs, deps[1], deps[2], path, n, reply)]
        ELSE [type |-> "none",
              out |-> ConstructionValidationError(
                          "Unknown step type: " \o step.step_type, h, n)]

\* _execute_construction_step(step, construction_space, rust_service)
_execute_construction_step(step, h, cs, path, n, reply) ==
    LET deps == step.dependencies
        label == DictGet(step.metadata, "label", None)
    IN  IF step.step_type = "add_point"
        THEN [type |-> "point",
              out |-> add_point(h, cs, DictGet(step.metadata, "x", 0),
                                DictGet(step.metadata, "y", 0), label, path, n, reply)]
        ELSE IF step.step_type = "construct_line"
        THEN [type |-> "line",
              out |-> IF Len(deps) # 2
                      THEN ConstructionValidationError("Line requires exactly 2 points", h, n)
                      ELSE construct_line(h, cs, deps[1], deps[2], label, path, n, reply)]
        ELSE IF step.step_type = "construct_circle"
        THEN [type |-> "circle",
              out |-> IF Len(deps) # 2
                      THEN ConstructionValidationError("Circle requires exactly 2 points", h, n)
                      ELSE construct_circle(h, cs, deps[1], deps[2], label, path, n, reply)]
        ELSE IF step.step_type = "find_intersections"
        THEN [type |-> "intersections",
              out |-> IF Len(deps) # 2
                      THEN ConstructionValidationError(
                               "Intersection requires exactly 2 geometric objects", h, n)
                      ELSE find_intersections(h, cs, deps[1], deps[2], path, n, reply)]
        ELSE [type |-> "none",
              out |-> ConstructionValidationError(
                          "Unknown step type: " \o step.step_type, h, n)]

\* one entry of execution_results
ExecutionResult(i, step, ex) ==
    IF ex.out.ok
    THEN [step_number |-> i + 1, step |-> step, success |-> TRUE,
          result |-> StepResult(ex.type, ex.out), error |-> "",
          message |-> "Step " \o ToString(i + 1) \o " executed successfully"]
    ELSE [step_number |-> i + 1, step |-> step, success |-> FALSE,
          result |-> NoResult, error |-> ex.out.message,
          message |-> "Step " \o ToString(i + 1) \o " failed: " \o ex.out.message]

\* the loop without its break: it ends only when the steps are exhausted
ExecuteLoopWithoutBreak(results, n_steps) == Len(results) = n_steps

\* the for loop of execute_construction_sequence is over: exhausted, or left by break
ExecuteLoopEnded(results, n_steps) ==
    \/ Len(results) = n_steps
    \/ Len(results) > 0 /\ ~results[Len(results)].success

\* the loop going on with the space it had, whatever the step returned
UpdatedCurrentSpaceKept(cs, ex) == cs

\* if "updated_space" in result: current_space = result["updated_space"]
UpdatedCurrentSpace(cs, ex) == IF ex.out.ok THEN ex.out.space ELSE cs

\* one entry of validation_results
ValidationResult(i, step, is_valid, space) ==
    [step_number |-> i + 1, step |-> step, is_valid |-> is_valid,
     validation_message |-> IF is_valid THEN "Step is valid" ELSE "Step is invalid",
     suggestions |-> IF ~is_valid THEN _get_validation_suggestions(step, space) ELSE <<>>]

\* the validation loop without its break: it ends only when the steps are exhausted
ValidateLoopWithoutBreak(results, n_steps) == Len(results) = n_steps

\* the for loop of validate_construction_sequence is over
ValidateLoopEnded(results, n_steps) ==
    \/ Len(results) = n_steps
    \/ Len(results) > 0 /\ ~results[Len(results)].is_valid

\* the success count taken as the number of recorded results
SuccessCountOfRecorded(results) == Len(results)

\* sum(1 for r in execution_results if r["success"])
SuccessCount(results) == Cardinality({k \in DOMAIN results : results[k].success})

\* sum(1 for r in validation_results if r["is_valid"])
ValidCount(results) == Cardinality({k \in DOMAIN results : results[k].is_valid})

---------------------------------------------------------------------------
(* The state machine *)

\* the engine is run only in delegated mode
RepliesFor(path) == IF path THEN Replies ELSE {[kind |-> "ok", found |-> 0]}

\* the body of a point request: geometry.py PointCreate
PointCreateInputs ==
    {[x |-> 0, y |-> 0, label |-> "A"], [x |-> 100, y |-> 0, label |-> None]}

NoResponse == [operation |-> "none", status |-> 0]

Init ==
    /\ rust_binary_path \in BOOLEAN
    /\ heap = <<>>
    /\ uuid_count = 0
    /\ \E s \in InitSpaces : client_space = [c \in Callers |-> s]
    /\ pc = [c \in Callers |-> "idle"]
    /\ initial_construction_space = [c \in Callers |-> 0]
    /\ current_space = [c \in Callers |-> 0]
    /\ total_steps = [c \in Callers |-> 0]
    /\ execution_results = [c \in Callers |-> <<>>]
    /\ validation_results = [c \in Callers |-> <<>>]
    /\ response = [c \in Callers |-> NoResponse]
    /\ attempted = [c \in Callers |-> 0]
    /\ applied_space = client_space
    /\ entry_space = client_space
    /\ calls = [c \in Callers |-> 0]
    /\ threaded = [c \in Callers |-> 0]
    /\ engine_requests = [c \in Callers |-> 0]
    /\ engine_reply = [c \in Callers |-> "none"]
    /\ lifespan_pc = "running"
    /\ app_state = {"rust_service"}
    /\ neo4j_driver = "set"
    /\ connect_returned = "False"

\* POST /validate-step
validate_construction_step(c) ==
    /\ pc[c] = "idle"
    /\ \E step \in StepInputs, reply \in RepliesFor(rust_binary_path) :
          LET request_space == Len(heap) + 1
              h == Append(heap, client_space[c])
              v == validate_construction(h[request_space], step, rust_binary_path, reply)
          IN  /\ heap' = h
              /\ initial_construction_space' =
                    [initial_construction_space EXCEPT ![c] = request_space]
              /\ response' = [response EXCEPT ![c] =
                    IF v.ok
                    THEN [operation |-> "validate_step", status |-> 200, step |-> step,
                          is_valid |-> v.is_valid,
                          validation_message |->
                             IF v.is_valid THEN "Step is valid" ELSE "Step is invalid",
                          suggestions |->
                             IF ~v.is_valid
                             THEN _get_validation_suggestions(step, h[request_space])
                             ELSE <<>>]
                    ELSE [operation |-> "validate_step", status |-> 422, step |-> step]]
              /\ engine_requests' = [engine_requests EXCEPT ![c] =
                    IF rust_binary_path THEN 1 ELSE 0]
              /\ engine_reply' = [engine_reply EXCEPT ![c] =
                    ValidateReply(v, rust_binary_path, reply)]
    /\ pc' = [pc EXCEPT ![c] = "done"]
    /\ UNCHANGED <<app_vars, rust_binary_path, uuid_count, client_space, current_space, total_steps,
                   execution_results, validation_results, attempted, applied_space,
                   entry_space, calls, threaded>>

\* POST /validate-sequence: entry, current_space = initial_construction_space.copy(deep=True)
validate_construction_sequence(c) ==
    /\ pc[c] = "idle"
    /\ \E n_steps \in 0..MaxSteps : total_steps' = [total_steps EXCEPT ![c] = n_steps]
    /\ heap' = heap \o <<client_space[c], client_space[c]>>
    /\ initial_construction_space' =
          [initial_construction_space EXCEPT ![c] = Len(heap) + 1]
    /\ current_space' = [current_space EXCEPT ![c] = Len(heap) + 2]
    /\ validation_results' = [validation_results EXCEPT ![c] = <<>>]
    /\ pc' = [pc EXCEPT ![c] = "validate"]
    /\ UNCHANGED <<app_vars, rust_binary_path, uuid_count, client_space, execution_results, response,
                   attempted, applied_space, entry_space, calls, threaded,
                   engine_requests, engine_reply>>

\* the validation loop executing each valid step on the space it validates against
ValidateSequenceStepApplying(c) ==
    /\ pc[c] = "validate"
    /\ ~ValidateLoopEnded(validation_results[c], total_steps[c])
    /\ \E step \in SequenceStepInputs, reply \in RepliesFor(rust_binary_path) :
          LET i == Len(validation_results[c])
              space == heap[current_space[c]]
              v == validate_construction(space, step, rust_binary_path, reply)
              ex == _execute_construction_step(step, heap, current_space[c],
                                               rust_binary_path, uuid_count, reply)
              applies == v.ok /\ v.is_valid
          IN  /\ engine_requests' = [engine_requests EXCEPT ![c] =
                    IF rust_binary_path THEN @ + 1 ELSE @]
              /\ engine_reply' = [engine_reply EXCEPT ![c] =
                    ValidateReply(v, rust_binary_path, reply)]
              /\ heap' = IF applies THEN ex.out.heap ELSE heap
              /\ uuid_count' = IF applies THEN ex.out.uuid_count ELSE uuid_count
              /\ current_space' = [current_space EXCEPT ![c] =
                    IF applies THEN UpdatedCurrentSpace(@, ex) ELSE @]
              /\ IF v.ok
                 THEN /\ validation_results' = [validation_results EXCEPT ![c] =
                            Append(@, ValidationResult(i, step, v.is_valid, space))]
                      /\ UNCHANGED <<response, pc>>
                 ELSE /\ response' = [response EXCEPT ![c] =
                            [operation |-> "validate_sequence", status |-> 422]]
                      /\ pc' = [pc EXCEPT ![c] = "done"]
                      /\ UNCHANGED validation_results
    /\ UNCHANGED <<app_vars, rust_binary_path, client_space, initial_construction_space, total_steps,
                   execution_results, attempted, applied_space, entry_space, calls,
                   threaded>>

\* one iteration of validate_construction_sequence's loop
ValidateSequenceStep(c) ==
    /\ pc[c] = "validate"
    /\ ~ValidateLoopEnded(validation_results[c], total_steps[c])
    /\ \E step \in SequenceStepInputs, reply \in RepliesFor(rust_binary_path) :
          LET i == Len(validation_results[c])
              space == heap[current_space[c]]
              v == validate_construction(space, step, rust_binary_path, reply)
          IN  /\ engine_requests' = [engine_requests EXCEPT ![c] =
                    IF rust_binary_path THEN @ + 1 ELSE @]
              /\ engine_reply' = [engine_reply EXCEPT ![c] =
                    ValidateReply(v, rust_binary_path, reply)]
              /\ IF v.ok
                 THEN /\ validation_results' = [validation_results EXCEPT ![c] =
                            Append(@, ValidationResult(i, step, v.is_valid, space))]
                      /\ UNCHANGED <<response, pc>>
                 ELSE /\ response' = [response EXCEPT ![c] =
                            [operation |-> "validate_sequence", status |-> 422]]
                      /\ pc' = [pc EXCEPT ![c] = "done"]
                      /\ UNCHANGED validation_results
    /\ UNCHANGED <<app_vars, rust_binary_path, heap, uuid_count, client_space,
                   initial_construction_space, current_space, total_steps,
                   execution_results, attempted, applied_space, entry_space, calls,
                   threaded>>

\* validate_construction_sequence's summary and return
ValidateSequenceReturn(c) ==
    /\ pc[c] = "validate"
    /\ ValidateLoopEnded(validation_results[c], total_steps[c])
    /\ LET results == validation_results[c]
       IN  response' = [response EXCEPT ![c] =
              [operation |-> "validate_sequence", status |-> 200,
               overall_valid |-> \A k \in DOMAIN results : results[k].is_valid,
               validation_results |-> results,
               summary |->
                  [total_steps |-> total_steps[c],
                   valid_steps |-> ValidCount(results),
                   invalid_steps |-> Len(results) - ValidCount(results)]]]
    /\ pc' = [pc EXCEPT ![c] = "done"]
    /\ UNCHANGED <<app_vars, rust_binary_path, heap, uuid_count, client_space,
                   initial_construction_space, current_space, total_steps,
                   execution_results, validation_results, attempted, applied_space,
                   entry_space, calls, threaded,
                   engine_requests, engine_reply>>

\* execute-sequence working on its argument itself: current_space = initial_construction_space
execute_construction_sequence_aliased(c) ==
    /\ pc[c] = "idle"
    /\ \E n_steps \in 0..MaxSteps : total_steps' = [total_steps EXCEPT ![c] = n_steps]
    /\ heap' = heap \o <<client_space[c], client_space[c]>>
    /\ initial_construction_space' =
          [initial_construction_space EXCEPT ![c] = Len(heap) + 1]
    /\ current_space' = [current_space EXCEPT ![c] = Len(heap) + 1]
    /\ execution_results' = [execution_results EXCEPT ![c] = <<>>]
    /\ pc' = [pc EXCEPT ![c] = "execute"]
    /\ UNCHANGED <<app_vars, rust_binary_path, uuid_count, client_space, validation_results, response,
                   attempted, applied_space, entry_space, calls, threaded,
                   engine_requests, engine_reply>>

\* execute-sequence working on one space kept across calls: a run entered while
\* another is in progress takes that run's current space instead of a copy of its argument
execute_construction_sequence_shared(c) ==
    /\ pc[c] = "idle"
    /\ \E n_steps \in 0..MaxSteps : total_steps' = [total_steps EXCEPT ![c] = n_steps]
    /\ heap' = heap \o <<client_space[c], client_space[c]>>
    /\ initial_construction_space' =
          [initial_construction_space EXCEPT ![c] = Len(heap) + 1]
    /\ current_space' = [current_space EXCEPT ![c] =
          IF \E d \in Callers \ {c} : pc[d] = "execute"
          THEN current_space[CHOOSE d \in Callers \ {c} : pc[d] = "execute"]
          ELSE Len(heap) + 2]
    /\ execution_results' = [execution_results EXCEPT ![c] = <<>>]
    /\ pc' = [pc EXCEPT ![c] = "execute"]
    /\ UNCHANGED <<app_vars, rust_binary_path, uuid_count, client_space, validation_results, response,
                   attempted, applied_space, entry_space, calls, threaded,
                   engine_requests, engine_reply>>

\* POST /execute-sequence: entry, current_space = initial_construction_space.copy(deep=True)
execute_construction_sequence(c) ==
    /\ pc[c] = "idle"
    /\ \E n_steps \in 0..MaxSteps : total_steps' = [total_steps EXCEPT ![c] = n_steps]
    /\ heap' = heap \o <<client_space[c], client_space[c]>>
    /\ initial_construction_space' =
          [initial_construction_space EXCEPT ![c] = Len(heap) + 1]
    /\ current_space' = [current_space EXCEPT ![c] = Len(heap) + 2]
    /\ execution_results' = [execution_results EXCEPT ![c] = <<>>]
    /\ pc' = [pc EXCEPT ![c] = "execute"]
    /\ UNCHANGED <<app_vars, rust_binary_path, uuid_count, client_space, validation_results, response,
                   attempted, applied_space, entry_space, calls, threaded,
                   engine_requests, engine_reply>>

\* the loop's iteration sending the request of a step a second time when the
\* first call fails
ExecuteSequenceStepRetrying(c) ==
    /\ pc[c] = "execute"
    /\ ~ExecuteLoopEnded(execution_results[c], total_steps[c])
    /\ \E step \in SequenceStepInputs, reply \in RepliesFor(rust_binary_path),
          again \in RepliesFor(rust_binary_path) :
          LET i == Len(execution_results[c])
              first == _execute_construction_step(step, heap, current_space[c],
                                                  rust_binary_path, uuid_count, reply)
              retried == SentRequest(first.out, rust_binary_path) /\ ~first.out.ok
              ex == IF retried
                    THEN _execute_construction_step(step, heap, current_space[c],
                                                    rust_binary_path, uuid_count, again)
                    ELSE first
          IN  /\ heap' = ex.out.heap
              /\ uuid_count' = ex.out.uuid_count
              /\ execution_results' = [execution_results EXCEPT ![c] =
                    Append(@, ExecutionResult(i, step, ex))]
              /\ current_space' = [current_space EXCEPT ![c] = UpdatedCurrentSpace(@, ex)]
              /\ applied_space' = [applied_space EXCEPT ![c] =
                    IF ex.out.ok THEN ex.out.heap[ex.out.space] ELSE @]
              /\ engine_requests' = [engine_requests EXCEPT ![c] =
                    IF retried THEN @ + 2
                    ELSE IF SentRequest(ex.out, rust_binary_path) THEN @ + 1 ELSE @]
              /\ engine_reply' = [engine_reply EXCEPT ![c] =
                    IF SentRequest(ex.out, rust_binary_path)
                    THEN EngineReply(ex.out, rust_binary_path, IF retried THEN again ELSE reply)
                    ELSE @]
    /\ attempted' = [attempted EXCEPT ![c] = @ + 1]
    /\ UNCHANGED <<app_vars, rust_binary_path, client_space, pc, initial_construction_space,
                   total_steps, validation_results, response, entry_space, calls, threaded>>

\* one iteration of execute_construction_sequence's loop
ExecuteSequenceStep(c) ==
    /\ pc[c] = "execute"
    /\ ~ExecuteLoopEnded(execution_results[c], total_steps[c])
    /\ \E step \in SequenceStepInputs, reply \in RepliesFor(rust_binary_path) :
          LET i == Len(execution_results[c])
              ex == _execute_construction_step(step, heap, current_space[c],
                                               rust_binary_path, uuid_count, reply)
          IN  /\ heap' = ex.out.heap
              /\ uuid_count' = ex.out.uuid_count
              /\ execution_results' = [execution_results EXCEPT ![c] =
                    Append(@, ExecutionResult(i, step, ex))]
              /\ current_space' = [current_space EXCEPT ![c] = UpdatedCurrentSpace(@, ex)]
              /\ applied_space' = [applied_space EXCEPT ![c] =
                    IF ex.out.ok THEN ex.out.heap[ex.out.space] ELSE @]
              /\ engine_requests' = [engine_requests EXCEPT ![c] =
                    IF SentRequest(ex.out, rust_binary_path) THEN @ + 1 ELSE @]
              /\ engine_reply' = [engine_reply EXCEPT ![c] =
                    IF SentRequest(ex.out, rust_binary_path)
                    THEN EngineReply(ex.out, rust_binary_path, reply) ELSE @]
    /\ attempted' = [attempted EXCEPT ![c] = @ + 1]
    /\ UNCHANGED <<app_vars, rust_binary_path, client_space, pc, initial_construction_space,
                   total_steps, validation_results, response, entry_space, calls, threaded>>

\* the report's per-step entries as the caller receives them
SerializedResults(results, h) ==
    [k \in DOMAIN results |->
        IF results[k].success
        THEN [results[k] EXCEPT !.result.updated_space = h[@]]
        ELSE results[k]]

\* execute_construction_sequence's summary and return
ExecuteSequenceReturn(c) ==
    /\ pc[c] = "execute"
    /\ ExecuteLoopEnded(execution_results[c], total_steps[c])
    /\ LET results == execution_results[c]
           success_count == SuccessCount(results)
       IN  response' = [response EXCEPT ![c] =
              [operation |-> "execute_sequence", status |-> 200,
               final_construction_space |-> heap[current_space[c]],
               execution_results |-> SerializedResults(results, heap),
               summary |->
                  [total_steps |-> total_steps[c],
                   successful_steps |-> success_count,
                   failed_steps |-> Len(results) - success_count,
                   overall_success |-> success_count = total_steps[c]]]]
    /\ pc' = [pc EXCEPT ![c] = "done"]
    /\ UNCHANGED <<app_vars, rust_binary_path, heap, uuid_count, client_space,
                   initial_construction_space, current_space, total_steps,
                   execution_results, validation_results, attempted, applied_space,
                   entry_space, calls, threaded,
                   engine_requests, engine_reply>>

\* POST /points (geometry.py add_point); the caller keeps the space of the response
add_point_endpoint(c) ==
    /\ pc[c] \in {"idle", "session"}
    /\ calls[c] < MaxCalls
    /\ \E point_data \in PointCreateInputs, reply \in RepliesFor(rust_binary_path) :
          LET construction_space_data == Len(heap) + 1
              out == add_point(Append(heap, client_space[c]), construction_space_data,
                               point_data.x, point_data.y, point_data.label,
                               rust_binary_path, uuid_count, reply)
          IN  /\ heap' = out.heap
              /\ uuid_count' = out.uuid_count
              /\ initial_construction_space' =
                    [initial_construction_space EXCEPT ![c] = construction_space_data]
              /\ engine_requests' = [engine_requests EXCEPT ![c] =
                    IF SentRequest(out, rust_binary_path) THEN 1 ELSE 0]
              /\ engine_reply' = [engine_reply EXCEPT ![c] =
                    EngineReply(out, rust_binary_path, reply)]
              /\ IF out.ok
                 THEN /\ response' = [response EXCEPT ![c] =
                            [operation |-> "add_point", status |-> 200,
                             construction_space |-> out.heap[out.space],
                             created_id |-> out.created[1]]]
                      /\ client_space' = [client_space EXCEPT ![c] = out.heap[out.space]]
                      /\ threaded' = [threaded EXCEPT ![c] = @ + 1]
                 ELSE /\ response' = [response EXCEPT ![c] =
                            [operation |-> "add_point", status |-> 422]]
                      /\ UNCHANGED <<client_space, threaded>>
    /\ calls' = [calls EXCEPT ![c] = @ + 1]
    /\ pc' = [pc EXCEPT ![c] = "session"]
    /\ UNCHANGED <<app_vars, rust_binary_path, current_space, total_steps, execution_results,
                   validation_results, attempted, applied_space, entry_space>>

\* the bodies of the line, circle and intersection requests: geometry.py
\* LineCreate, CircleCreate, IntersectionRequest
PairInputs == {<<"A", "B">>, <<"A", "A">>, <<"A", "Z">>, <<"L", "K">>}

\* what a geometry endpoint answers for the bridge's outcome: ConstructionSpaceResponse,
\* or HTTPException(422, detail=str(e))
GeometryEndpointResponse(operation, out) ==
    IF out.ok
    THEN [operation |-> operation, status |-> 200,
          construction_space |-> out.heap[out.space], created_id |-> out.created,
          intersections |-> out.intersections]
    ELSE [operation |-> operation, status |-> 422, detail |-> out.message]

\* POST /lines (geometry.py construct_line)
construct_line_endpoint(c) ==
    /\ pc[c] = "idle"
    /\ \E line_data \in PairInputs, reply \in RepliesFor(rust_binary_path) :
          LET construction_space_data == Len(heap) + 1
              out == construct_line(Append(heap, client_space[c]), construction_space_data,
                                    line_data[1], line_data[2], None,
                                    rust_binary_path, uuid_count, reply)
          IN  /\ heap' = out.heap
              /\ uuid_count' = out.uuid_count
              /\ initial_construction_space' =
                    [initial_construction_space EXCEPT ![c] = construction_space_data]
              /\ response' = [response EXCEPT ![c] =
                    GeometryEndpointResponse("construct_line", out)]
              /\ engine_requests' = [engine_requests EXCEPT ![c] =
                    IF SentRequest(out, rust_binary_path) THEN 1 ELSE 0]
              /\ engine_reply' = [engine_reply EXCEPT ![c] =
                    EngineReply(out, rust_binary_path, reply)]
    /\ pc' = [pc EXCEPT ![c] = "done"]
    /\ UNCHANGED <<app_vars, rust_binary_path, client_space, current_space, total_steps,
                   execution_results, validation_results, attempted, applied_space,
                   entry_space, calls, threaded>>

\* POST /circles (geometry.py construct_circle)
construct_circle_endpoint(c) ==
    /\ pc[c] = "idle"
    /\ \E circle_data \in PairInputs, reply \in RepliesFor(rust_binary_path) :
          LET construction_space_data == Len(heap) + 1
              out == construct_circle(Append(heap, client_space[c]), construction_space_data,
                                      circle_data[1], circle_data[2], None,
                                      rust_binary_path, uuid_count, reply)
          IN  /\ heap' = out.heap
              /\ uuid_count' = out.uuid_count
              /\ initial_construction_space' =
                    [initial_construction_space EXCEPT ![c] = construction_space_data]
              /\ response' = [response EXCEPT ![c] =
                    GeometryEndpointResponse("construct_circle", out)]
              /\ engine_requests' = [engine_requests EXCEPT ![c] =
                    IF SentRequest(out, rust_binary_path) THEN 1 ELSE 0]
              /\ engine_reply' = [engine_reply EXCEPT ![c] =
                    EngineReply(out, rust_binary_path, reply)]
    /\ pc' = [pc EXCEPT ![c] = "done"]
    /\ UNCHANGED <<app_vars, rust_binary_path, client_space, current_space, total_steps,
                   execution_results, validation_results, attempted, applied_space,
                   entry_space, calls, threaded>>

\* POST /intersections (geometry.py find_intersections)
find_intersections_endpoint(c) ==
    /\ pc[c] = "idle"
    /\ \E intersection_data \in PairInputs, reply \in RepliesFor(rust_binary_path) :
          LET construction_space_data == Len(heap) + 1
              out == find_intersections(Append(heap, client_space[c]),
                                        construction_space_data,
                                        intersection_data[1], intersection_data[2],
                                        rust_binary_path, uuid_count, reply)
          IN  /\ heap' = out.heap
              /\ uuid_count' = out.uuid_count
              /\ initial_construction_space' =
                    [initial_construction_space EXCEPT ![c] = construction_space_data]
              /\ response' = [response EXCEPT ![c] =
                    GeometryEndpointResponse("find_intersections", out)]
              /\ engine_requests' = [engine_requests EXCEPT ![c] =
                    IF SentRequest(out, rust_binary_path) THEN 1 ELSE 0]
              /\ engine_reply' = [engine_reply EXCEPT ![c] =
                    EngineReply(out, rust_binary_path, reply)]
    /\ pc' = [pc EXCEPT ![c] = "done"]
    /\ UNCHANGED <<app_vars, rust_binary_path, client_space, current_space, total_steps,
                   execution_results, validation_results, attempted, applied_space,
                   entry_space, calls, threaded>>

\* POST /construction-space (geometry.py create_construction_space)
create_construction_space_endpoint(c) ==
    /\ pc[c] = "idle"
    /\ \E reply \in RepliesFor(rust_binary_path) :
          /\ response' = [response EXCEPT ![c] =
                [operation |-> "create_construction_space", status |-> 200,
                 construction_space |-> create_construction_space(rust_binary_path, reply)]]
          /\ engine_reply' = [engine_reply EXCEPT ![c] =
                IF rust_binary_path THEN reply.kind ELSE "none"]
    /\ engine_requests' = [engine_requests EXCEPT ![c] = IF rust_binary_path THEN 1 ELSE 0]
    /\ pc' = [pc EXCEPT ![c] = "done"]
    /\ UNCHANGED <<app_vars, rust_binary_path, heap, uuid_count, client_space,
                   initial_construction_space, current_space, total_steps,
                   execution_results, validation_results, attempted, applied_space,
                   entry_space, calls, threaded>>

\* GET /health (geometry.py geometry_health_check)
geometry_health_check(c) ==
    /\ pc[c] = "idle"
    /\ \E reply \in RepliesFor(rust_binary_path) :
          LET is_healthy == health_check(rust_binary_path, reply)
          IN  /\ response' = [response EXCEPT ![c] =
                 [operation |-> "health", status |-> 200, success |-> is_healthy,
                  message |-> IF is_healthy THEN "Geometry engine is healthy"
                              ELSE "Geometry engine is unhealthy",
                  data |-> [engine_available |-> is_healthy]]]
              /\ engine_reply' = [engine_reply EXCEPT ![c] =
                    IF rust_binary_path THEN reply.kind ELSE "none"]
    /\ engine_requests' = [engine_requests EXCEPT ![c] = IF rust_binary_path THEN 1 ELSE 0]
    /\ pc' = [pc EXCEPT ![c] = "done"]
    /\ UNCHANGED <<app_vars, rust_binary_path, heap, uuid_count, client_space,
                   initial_construction_space, current_space, total_steps,
                   execution_results, validation_results, attempted, applied_space,
                   entry_space, calls, threaded>>

\* a delegated call of a sequence handler whose engine process never exits:
\* await process.communicate() has no timeout, the handler stays in it
DelegatedCallBlocks(c) ==
    /\ rust_binary_path
    /\ \/ pc[c] = "execute" /\ ~ExecuteLoopEnded(execution_results[c], total_steps[c])
       \/ pc[c] = "validate" /\ ~ValidateLoopEnded(validation_results[c], total_steps[c])
    /\ pc' = [pc EXCEPT ![c] = "blocked"]
    /\ engine_requests' = [engine_requests EXCEPT ![c] = @ + 1]
    /\ UNCHANGED <<app_vars, rust_binary_path, heap, uuid_count, client_space,
                   initial_construction_space, current_space, total_steps,
                   execution_results, validation_results, response, attempted,
                   applied_space, entry_space, calls, threaded, engine_reply>>

Request(c) ==
    \/ validate_construction_step(c)
    \/ validate_construction_sequence(c)
    \/ ValidateSequenceStep(c)
    \/ ValidateSequenceReturn(c)
    \/ execute_construction_sequence(c)
    \/ ExecuteSequenceStep(c)
    \/ ExecuteSequenceReturn(c)
    \/ add_point_endpoint(c)
    \/ construct_line_endpoint(c)
    \/ construct_circle_endpoint(c)
    \/ find_intersections_endpoint(c)
    \/ create_construction_space_endpoint(c)
    \/ geometry_health_check(c)
    \/ DelegatedCallBlocks(c)

Next == Request(1)

Spec == Init /\ [][Next]_vars

---------------------------------------------------------------------------
(* Two callers running execute-sequence concurrently: the handlers are          *)
(* coroutines of one event loop and interleave at their awaits, one per step.   *)

MaxConcurrentSteps == 2     \* longest sequence a concurrent caller submits

\* the steps the concurrent callers submit
ConcurrentStepInputs ==
    {ConstructionStep("add_point", <<>>, MetaA),
     ConstructionStep("construct_line", <<"A", "B">>, EmptyMeta),
     ConstructionStep("construct_circle", <<"A", "Z">>, EmptyMeta)}

\* the failure these steps meet: a dependency that is no point of the space
PointNotFound(id) == "Geometry engine error: Point not found: " \o id

\* what the two callers have submitted is within these inputs: sequences of
\* MaxConcurrentSteps of these steps, and every request to the engine is answered
ConcurrentInputs ==
    \A c \in Callers :
        /\ total_steps[c] \in {0, MaxConcurrentSteps}
        /\ \A k \in DOMAIN execution_results[c] :
              /\ execution_results[c][k].step \in ConcurrentStepInputs
              /\ \/ execution_results[c][k].success
                 \/ execution_results[c][k].error \in {PointNotFound(id) : id \in DepNames}

\* each caller holds its own space, caller 1 the one with fewer objects
ConcurrentInit ==
    /\ rust_binary_path \in BOOLEAN
    /\ heap = <<>>
    /\ uuid_count = 0
    /\ client_space \in {f \in [Callers -> InitSpaces] :
                            Len(f[1].history) < Len(f[2].history)}
    /\ pc = [c \in Callers |-> "idle"]
    /\ initial_construction_space = [c \in Callers |-> 0]
    /\ current_space = [c \in Callers |-> 0]
    /\ total_steps = [c \in Callers |-> 0]
    /\ execution_results = [c \in Callers |-> <<>>]
    /\ validation_results = [c \in Callers |-> <<>>]
    /\ response = [c \in Callers |-> NoResponse]
    /\ attempted = [c \in Callers |-> 0]
    /\ applied_space = client_space
    /\ entry_space = client_space
    /\ calls = [c \in Callers |-> 0]
    /\ threaded = [c \in Callers |-> 0]
    /\ engine_requests = [c \in Callers |-> 0]
    /\ engine_reply = [c \in Callers |-> "none"]
    /\ lifespan_pc = "running"
    /\ app_state = {"rust_service"}
    /\ neo4j_driver = "set"
    /\ connect_returned = "False"

ConcurrentRequest(c) ==
    \/ execute_construction_sequence(c) /\ ConcurrentInputs'
    \/ ExecuteSequenceStep(c) /\ ConcurrentInputs'
    \/ ExecuteSequenceReturn(c)

ConcurrentNext == \E c \in Callers : ConcurrentRequest(c)

ConcurrentSpec == ConcurrentInit /\ [][ConcurrentNext]_vars

---------------------------------------------------------------------------
(* Element collection: collection.py *)

MaxObjects == 4         \* most points, lines or circles in a space given to unlock-element

CollectionElement(id, name, rarity, unlock_requirements, is_unlocked) ==
    [id |-> id, name |-> name, rarity |-> rarity,
     unlock_requirements |-> unlock_requirements, is_unlocked |-> is_unlocked]

\* the predefined elements, in the order of the dict
COLLECTION_ELEMENTS ==
    <<CollectionElement("basic_point", "Basic Point", "common", <<>>, TRUE),
      CollectionElement("line_segment", "Line Segment", "common", <<"basic_point">>, FALSE),
      CollectionElement("circle", "Circle", "common", <<"basic_point">>, FALSE),
      CollectionElement("equilateral_triangle", "Equilateral Triangle", "uncommon",
                        <<"line_segment", "circle">>, FALSE),
      CollectionElement("perpendicular_bisector", "Perpendicular Bisector", "uncommon",
                        <<"line_segment", "circle">>, FALSE),
      CollectionElement("angle_bisector", "Angle Bisector", "rare",
                        <<"perpendicular_bisector", "equilateral_triangle">>, FALSE),
      CollectionElement("regular_hexagon", "Regular Hexagon", "rare",
                        <<"equilateral_triangle", "circle">>, FALSE),
      CollectionElement("golden_ratio", "Golden Ratio", "legendary",
                        <<"regular_hexagon", "angle_bisector">>, FALSE)>>

\* str.lower() on the names a request gives as completed_construction
Lower(text) ==
    CASE text = "Circle" -> "circle"
      [] text = "Equilateral_Triangle" -> "equilateral_triangle"
      [] text = "Equilateral Triangle" -> "equilateral triangle"
      [] OTHER -> text

\* element.name.lower().replace(" ", "_")
NameKey(name) ==
    CASE name = "Basic Point" -> "basic_point"
      [] name = "Line Segment" -> "line_segment"
      [] name = "Circle" -> "circle"
      [] name = "Equilateral Triangle" -> "equilateral_triangle"
      [] name = "Perpendicular Bisector" -> "perpendicular_bisector"
      [] name = "Angle Bisector" -> "angle_bisector"
      [] name = "Regular Hexagon" -> "regular_hexagon"
      [] name = "Golden Ratio" -> "golden_ratio"
      [] OTHER -> name

\* the elements get_player_collection gives every player
PlayerElements == {"basic_point"}

\* _can_unlock_element(element, construction_space)
_can_unlock_element(element, space) ==
    IF element.unlock_requirements = <<>> THEN TRUE
    ELSE IF element.id = "line_segment" THEN Cardinality(DOMAIN space.lines) > 0
    ELSE IF element.id = "circle" THEN Cardinality(DOMAIN space.circles) > 0
    ELSE IF element.id = "equilateral_triangle"
    THEN Cardinality(DOMAIN space.lines) >= 3 /\ Cardinality(DOMAIN space.circles) >= 2
    ELSE IF element.id = "perpendicular_bisector"
    THEN Cardinality(DOMAIN space.lines) >= 2 /\ Cardinality(DOMAIN space.circles) >= 2
    ELSE FALSE

\* _analyze_construction(construction_space, rust_service)
_analyze_construction(space) ==
    LET point_count == Cardinality(DOMAIN space.points)
        line_count == Cardinality(DOMAIN space.lines)
        circle_count == Cardinality(DOMAIN space.circles)
    IN  [point_count |-> point_count, line_count |-> line_count,
         circle_count |-> circle_count, construction_steps |-> Len(space.history),
         identified_patterns |->
            (IF line_count = 3 /\ circle_count >= 2 /\ point_count >= 3
             THEN <<"equilateral_triangle">> ELSE <<>>)
            \o (IF line_count >= 2 /\ circle_count >= 2
                THEN <<"perpendicular_bisector">> ELSE <<>>)
            \o (IF circle_count >= 1 THEN <<"circle">> ELSE <<>>)
            \o (IF line_count >= 1 THEN <<"line_segment">> ELSE <<>>)]

\* rarity_xp.get(element.rarity, 10)
RarityXp(rarity) ==
    CASE rarity = "common" -> 10
      [] rarity = "uncommon" -> 25
      [] rarity = "rare" -> 50
      [] rarity = "legendary" -> 100
      [] OTHER -> 10

RECURSIVE ExperienceGained(_)
ExperienceGained(elements) ==
    IF elements = <<>> THEN 0
    ELSE RarityXp(elements[1].rarity) + ExperienceGained(Tail(elements))

\* a space with the given numbers of points, lines and circles, as a request carries it
CountedSpace(n_points, n_lines, n_circles) ==
    [points |-> [id \in {"P" \o ToString(k) : k \in 1..n_points} |->
                    Point(id, 0, 0, None, FALSE, <<>>)],
     lines |-> [id \in {"L" \o ToString(k) : k \in 1..n_lines} |->
                   Line(id, "P1", "P2", None, <<"P1", "P2">>)],
     circles |-> [id \in {"K" \o ToString(k) : k \in 1..n_circles} |->
                     Circle(id, "P1", "P2", None, <<"P1", "P2">>)],
     history |-> <<>>]

\* the names given as completed_construction
CompletedConstructionInputs ==
    {NameKey(COLLECTION_ELEMENTS[k].name) : k \in DOMAIN COLLECTION_ELEMENTS}
    \cup {"Circle", "Equilateral_Triangle", "Equilateral Triangle", "invalid_construction"}

\* POST /unlock-element
unlock_element(c) ==
    /\ pc[c] = "idle"
    /\ \E completed_construction \in CompletedConstructionInputs :
          LET construction_space == client_space[c]
              analysis == _analyze_construction(construction_space)
              matching == SelectSeq(COLLECTION_ELEMENTS,
                             LAMBDA element :
                                /\ NameKey(element.name) = Lower(completed_construction)
                                /\ _can_unlock_element(element, construction_space))
              unlocked_elements == [k \in DOMAIN matching |->
                                      [matching[k] EXCEPT !.is_unlocked = TRUE]]
          IN  response' = [response EXCEPT ![c] =
                 [operation |-> "unlock_element", status |-> 200,
                  completed_construction |-> completed_construction,
                  success |-> Len(unlocked_elements) > 0,
                  unlocked_elements |-> unlocked_elements,
                  experience_gained |-> ExperienceGained(unlocked_elements),
                  construction_analysis |-> analysis,
                  message |-> IF unlocked_elements # <<>>
                              THEN "Unlocked " \o ToString(Len(unlocked_elements))
                                   \o " new elements!"
                              ELSE "No new elements unlocked"]]
    /\ pc' = [pc EXCEPT ![c] = "done"]
    /\ UNCHANGED <<app_vars, rust_binary_path, heap, uuid_count, client_space,
                   initial_construction_space, current_space, total_steps,
                   execution_results, validation_results, attempted, applied_space,
                   entry_space, calls, threaded, engine_requests, engine_reply>>

\* a caller holding a space of any counts up to MaxObjects
CollectionInit ==
    /\ rust_binary_path \in BOOLEAN
    /\ heap = <<>>
    /\ uuid_count = 0
    /\ \E n_points \in 0..MaxObjects, n_lines \in 0..MaxObjects, n_circles \in 0..MaxObjects :
          client_space = [c \in Callers |-> CountedSpace(n_points, n_lines, n_circles)]
    /\ pc = [c \in Callers |-> "idle"]
    /\ initial_construction_space = [c \in Callers |-> 0]
    /\ current_space = [c \in Callers |-> 0]
    /\ total_steps = [c \in Callers |-> 0]
    /\ execution_results = [c \in Callers |-> <<>>]
    /\ validation_results = [c \in Callers |-> <<>>]
    /\ response = [c \in Callers |-> NoResponse]
    /\ attempted = [c \in Callers |-> 0]
    /\ applied_space = client_space
    /\ entry_space = client_space
    /\ calls = [c \in Callers |-> 0]
    /\ threaded = [c \in Callers |-> 0]
    /\ engine_requests = [c \in Callers |-> 0]
    /\ engine_reply = [c \in Callers |-> "none"]
    /\ lifespan_pc = "running"
    /\ app_state = {"rust_service"}
    /\ neo4j_driver = "set"
    /\ connect_returned = "False"

CollectionNext == unlock_element(1)

CollectionSpec == CollectionInit /\ [][CollectionNext]_vars

---------------------------------------------------------------------------
(* Application startup and health: main.py, neo4j_service.py *)

\* what becomes of the connection attempt: the driver cannot be created, the
\* database does not answer, or the connection is verified
ConnectOutcomes == {"driver_failed", "unreachable", "connected"}

\* Neo4jService.connect(): the driver it leaves and the value it returns
connect(outcome) ==
    CASE outcome = "driver_failed" -> [driver |-> "none", returned |-> "False"]
      [] outcome = "unreachable" -> [driver |-> "set", returned |-> "False"]
      [] outcome = "connected" -> [driver |-> "set", returned |-> "True"]

\* init_neo4j handing on what connect() returned
init_neo4j_returning(returned) == returned

\* init_neo4j(): await neo4j_service.connect(), with no return statement
init_neo4j(returned) == None

\* the truth value Python gives a value in a condition
Truthy(value) == value \notin {None, "False"}

\* what the health query of the graph database does
Neo4jHealthOutcomes == {"healthy", "query_failed", "raised"}

\* Neo4jService.health_check()
neo4j_health_check(driver, outcome) ==
    IF driver = "none" THEN [status |-> "disconnected"]
    ELSE IF driver = "set" /\ outcome = "healthy" THEN [status |-> "healthy"]
    ELSE [status |-> "unhealthy"]

\* the overall status detailed_health_check derives from the dependencies
OverallStatus(statuses) ==
    IF "unhealthy" \in statuses THEN "unhealthy"
    ELSE IF "degraded" \in statuses THEN "degraded"
    ELSE "healthy"

\* lifespan(app), up to its yield
lifespan_startup ==
    /\ lifespan_pc = "created"
    /\ \E outcome \in ConnectOutcomes :
          LET connected == connect(outcome)
              neo4j_connected == init_neo4j(connected.returned)
          IN  /\ neo4j_driver' = connected.driver
              /\ connect_returned' = connected.returned
              /\ app_state' = IF Truthy(neo4j_connected)
                              THEN {"rust_service", "neo4j_service"}
                              ELSE {"rust_service"}
    /\ lifespan_pc' = "running"
    /\ UNCHANGED <<rust_binary_path, heap, uuid_count, client_space, pc,
                   initial_construction_space, current_space, total_steps,
                   execution_results, validation_results, response, attempted,
                   applied_space, entry_space, calls, threaded, engine_requests, engine_reply>>

\* lifespan(app), after its yield: close_neo4j()
lifespan_shutdown ==
    /\ lifespan_pc = "running"
    /\ neo4j_driver' = IF neo4j_driver = "set" THEN "closed" ELSE neo4j_driver
    /\ lifespan_pc' = "stopped"
    /\ UNCHANGED <<rust_binary_path, heap, uuid_count, client_space, pc,
                   initial_construction_space, current_space, total_steps,
                   execution_results, validation_results, response, attempted,
                   applied_space, entry_space, calls, threaded, engine_requests, engine_reply,
                   app_state, connect_returned>>

\* GET /health (main.py health_check)
app_health_check(c) ==
    /\ lifespan_pc = "running"
    /\ pc[c] = "idle"
    /\ response' = [response EXCEPT ![c] =
          [operation |-> "app_health", status |-> 200, health |-> "healthy"]]
    /\ pc' = [pc EXCEPT ![c] = "done"]
    /\ UNCHANGED <<app_vars, rust_binary_path, heap, uuid_count, client_space,
                   initial_construction_space, current_space, total_steps,
                   execution_results, validation_results, attempted, applied_space,
                   entry_space, calls, threaded, engine_requests, engine_reply>>

\* GET /health/detailed (main.py detailed_health_check)
detailed_health_check(c) ==
    /\ lifespan_pc = "running"
    /\ pc[c] = "idle"
    /\ \E reply \in RepliesFor(rust_binary_path), outcome \in Neo4jHealthOutcomes :
          LET rust_status == health_check(rust_binary_path, reply)
              rust_engine == [status |-> IF rust_status THEN "healthy" ELSE "unhealthy"]
              neo4j == IF "neo4j_service" \in app_state
                       THEN neo4j_health_check(neo4j_driver, outcome)
                       ELSE [status |-> "unavailable"]
          IN  /\ response' = [response EXCEPT ![c] =
                    [operation |-> "detailed_health", status |-> 200,
                     health |-> OverallStatus({rust_engine.status, neo4j.status}),
                     dependencies |-> [rust_engine |-> rust_engine, neo4j |-> neo4j]]]
              /\ engine_reply' = [engine_reply EXCEPT ![c] =
                    IF rust_binary_path THEN reply.kind ELSE "none"]
    /\ engine_requests' = [engine_requests EXCEPT ![c] = IF rust_binary_path THEN 1 ELSE 0]
    /\ pc' = [pc EXCEPT ![c] = "done"]
    /\ UNCHANGED <<app_vars, rust_binary_path, heap, uuid_count, client_space,
                   initial_construction_space, current_space, total_steps,
                   execution_results, validation_results, attempted, applied_space,
                   entry_space, calls, threaded>>

\* the application object before lifespan() runs
StartupInit ==
    /\ rust_binary_path \in BOOLEAN
    /\ heap = <<>>
    /\ uuid_count = 0
    /\ client_space = [c \in Callers |-> ConstructionSpace]
    /\ pc = [c \in Callers |-> "idle"]
    /\ initial_construction_space = [c \in Callers |-> 0]
    /\ current_space = [c \in Callers |-> 0]
    /\ total_steps = [c \in Callers |-> 0]
    /\ execution_results = [c \in Callers |-> <<>>]
    /\ validation_results = [c \in Callers |-> <<>>]
    /\ response = [c \in Callers |-> NoResponse]
    /\ attempted = [c \in Callers |-> 0]
    /\ applied_space = client_space
    /\ entry_space = client_space
    /\ calls = [c \in Callers |-> 0]
    /\ threaded = [c \in Callers |-> 0]
    /\ engine_requests = [c \in Callers |-> 0]
    /\ engine_reply = [c \in Callers |-> "none"]
    /\ lifespan_pc = "created"
    /\ app_state = {}
    /\ neo4j_driver = "none"
    /\ connect_returned = "none"

StartupRequest(c) ==
    \/ app_health_check(c)
    \/ detailed_health_check(c)

StartupNext ==
    \/ lifespan_startup
    \/ \E c \in Callers : StartupRequest(c)
    \/ lifespan_shutdown

StartupSpec == StartupInit /\ [][StartupNext]_vars

\* the event loop resumes a handler whose awaited call has ended
FairSpec ==
    /\ Spec
    /\ WF_vars(ExecuteSequenceStep(1)) /\ WF_vars(ExecuteSequenceReturn(1))
    /\ WF_vars(ValidateSequenceStep(1)) /\ WF_vars(ValidateSequenceReturn(1))

---------------------------------------------------------------------------
(* Properties of execute-sequence *)

\* the run of caller 1 has returned its execution report
Reported == response[1].operation = "execute_sequence"

\* caller 1 is inside execute-sequence, or has its report
InExecuteSequence == pc[1] = "execute" \/ Reported

\* the run of caller 1 stopped on a failed step
Halted ==
    /\ execution_results[1] # <<>>
    /\ ~execution_results[1][Len(execution_results[1])].success

C2_FailedStepLeavesSpace ==
    Halted =>
        /\ heap[current_space[1]] = applied_space[1]
        /\ Len(execution_results[1]) = 1 => heap[current_space[1]] = entry_space[1]
        /\ Reported => response[1].final_construction_space = applied_space[1]

\* a run that applied an add_point and then failed in the bridge's line or circle construction
C2_Witness ==
    /\ Reported
    /\ Halted
    /\ Len(execution_results[1]) = 2
    /\ execution_results[1][1].step.step_type = "add_point"
    /\ execution_results[1][2].step.step_type \in {"construct_line", "construct_circle"}
    /\ Len(execution_results[1][2].step.dependencies) = 2
    /\ response[1].final_construction_space # entry_space[1]

\* identifiers the applied steps report as created, in execution order
RECURSIVE CreatedIds(_)
CreatedIds(results) ==
    IF results = <<>> THEN <<>>
    ELSE LET r == results[1]
         IN  (IF r.success
              THEN <<r.result.created_id
                       \o [k \in DOMAIN r.result.intersections |-> r.result.intersections[k].id]>>
              ELSE <<>>) \o CreatedIds(Tail(results))

\* C3 (as claimed): after N applied steps the history is the initial history
\* plus N records, one per applied step in order, each with the identifiers
\* the step created.
C3_HistoryGrowsByApplied ==
    Reported =>
        LET final == response[1].final_construction_space.history
            initial == entry_space[1].history
            created == CreatedIds(execution_results[1])
        IN  /\ Len(final) = Len(initial) + response[1].summary.successful_steps
            /\ SubSeq(final, 1, Len(initial)) = initial
            /\ \A k \in 1..Len(created) : final[Len(initial) + k].created = created[k]

\* objects of one kind the applied steps report as created
CreatedCount(results, type) ==
    LET ids == CreatedIds(SelectSeq(results, LAMBDA r : r.result.type = type))
    IN  IF ids = <<>> THEN 0
        ELSE Cardinality(UNION {{<<k, j>> : j \in DOMAIN ids[k]} : k \in DOMAIN ids})

\* C4: the object counts of the space are the initial counts plus what the
\* applied steps created: one point per add_point (and the points an
\* intersection step reports), one line per construct_line, one circle per
\* construct_circle; n threaded add-point calls add n points.
C4_CountsGrowByCreated ==
    /\ InExecuteSequence =>
          LET space == heap[current_space[1]]
              results == execution_results[1]
              Added(type) ==
                  Cardinality({k \in DOMAIN results :
                                 results[k].success /\ results[k].step.step_type = type})
          IN  /\ Cardinality(DOMAIN space.points) =
                    Cardinality(DOMAIN entry_space[1].points)
                    + CreatedCount(results, "point") + CreatedCount(results, "intersections")
              /\ CreatedCount(results, "point") = Added("add_point")
              /\ Cardinality(DOMAIN space.lines) =
                    Cardinality(DOMAIN entry_space[1].lines) + Added("construct_line")
              /\ Cardinality(DOMAIN space.circles) =
                    Cardinality(DOMAIN entry_space[1].circles) + Added("construct_circle")
    /\ Reported =>
          LET final == response[1].final_construction_space
              space == heap[current_space[1]]
          IN  /\ Cardinality(DOMAIN final.points) = Cardinality(DOMAIN space.points)
              /\ Cardinality(DOMAIN final.lines) = Cardinality(DOMAIN space.lines)
              /\ Cardinality(DOMAIN final.circles) = Cardinality(DOMAIN space.circles)
    /\ pc[1] = "session" =>
          Cardinality(DOMAIN client_space[1].points) =
             Cardinality(DOMAIN entry_space[1].points) + threaded[1]

\* a completed run that created a point, a line and a circle; and 3 threaded add-point calls
C4_Witness ==
    /\ Reported
    /\ response[1].summary.overall_success
    /\ \A t \in {"add_point", "construct_line", "construct_circle"} :
          \E k \in DOMAIN execution_results[1] : execution_results[1][k].step.step_type = t

C4_WitnessThreaded == pc[1] = "session" /\ threaded[1] = MaxCalls

\* the scenario: from the empty space, add point A, add point B, construct-line(A,B)
ScenarioABLine ==
    /\ Reported
    /\ entry_space[1] = ConstructionSpace
    /\ total_steps[1] = 3
    /\ Len(execution_results[1]) = 3
    /\ execution_results[1][1].step = ConstructionStep("add_point", <<>>, MetaA)
    /\ execution_results[1][2].step = ConstructionStep("add_point", <<>>, MetaB)
    /\ execution_results[1][3].step = ConstructionStep("construct_line", <<"A", "B">>, EmptyMeta)

\* C5 (as claimed): each step is checked against the space the earlier steps
\* of the run produced: in the scenario the third step is applied and the
\* result has 2 points and 1 line whose dependencies are exactly [A,B].
C5_ScenarioLineApplied ==
    ScenarioABLine =>
        LET final == response[1].final_construction_space
        IN  /\ response[1].summary.overall_success
            /\ Cardinality(DOMAIN final.points) = 2
            /\ Cardinality(DOMAIN final.lines) = 1
            /\ \A id \in DOMAIN final.lines : final.lines[id].dependencies = <<"A", "B">>

---------------------------------------------------------------------------
(* Properties of the validator *)

\* validate-step has answered caller 1 with a verdict
Answered == response[1].operation = "validate_step" /\ response[1].status = 200

\* the space validate-step was given
ValidatedSpace == heap[initial_construction_space[1]]

Range(seq) == {seq[k] : k \in DOMAIN seq}

TwoDependencyTypes == {"construct_line", "construct_circle", "find_intersections"}

\* the dependency count is the one the step's type requires
CorrectArity(step) == step.step_type \in TwoDependencyTypes => Len(step.dependencies) = 2

\* the suggestions that state the required number of dependencies
AritySuggestions ==
    {"Line construction requires exactly 2 point dependencies",
     "Circle construction requires exactly 2 point dependencies (center and radius point)"}

C7_WrongArityInvalid ==
    Answered =>
        LET step == response[1].step
        IN  step.step_type \in TwoDependencyTypes /\ Len(step.dependencies) # 2
               => /\ ~response[1].is_valid
                  /\ Range(response[1].suggestions) \cap AritySuggestions # {}

\* C8 (as claimed): a construct_line or construct_circle step whose two
\* dependencies are the same identifier is reported invalid, whatever the
\* identifier names; for a circle on an existing point the suggestions say
\* that the two cannot be the same.
C8_IdenticalDependenciesInvalid ==
    Answered =>
        LET step == response[1].step
            deps == step.dependencies
        IN  /\ step.step_type \in {"construct_line", "construct_circle"}
            /\ Len(deps) = 2
            /\ deps[1] = deps[2]
            => /\ ~response[1].is_valid
               /\ step.step_type = "construct_circle" /\ deps[1] \in DOMAIN ValidatedSpace.points
                     => "Center and radius point cannot be the same"
                           \in Range(response[1].suggestions)

\* C9 (as claimed): every step validate-step or validate-sequence reports
\* invalid comes with at least one suggestion.
C9_InvalidHasSuggestions ==
    /\ Answered /\ ~response[1].is_valid => response[1].suggestions # <<>>
    /\ \A k \in DOMAIN validation_results[1] :
          ~validation_results[1][k].is_valid => validation_results[1][k].suggestions # <<>>

\* an identifier no space of the model ever holds
AbsentId == "Z"

\* C10 (as claimed): a step of any type with a dependency absent from the
\* space is reported invalid with a suggestion naming the missing identifier,
\* and execute-sequence never applies such a step.
C10_AbsentDependencyRejected ==
    /\ Answered =>
          LET step == response[1].step
              missing == Range(step.dependencies) \ AllIds(ValidatedSpace)
          IN  missing # {} =>
                 /\ ~response[1].is_valid
                 /\ \A dep_id \in missing :
                       RequiredObjectMissing(dep_id) \in Range(response[1].suggestions)
    /\ \A k \in DOMAIN execution_results[1] :
          execution_results[1][k].success =>
             AbsentId \notin Range(execution_results[1][k].step.dependencies)

---------------------------------------------------------------------------
(* Properties of validate-sequence *)

\* caller 1 is inside validate-sequence, or has been answered by it
InValidateSequence == pc[1] = "validate" \/ response[1].operation = "validate_sequence"

\* validate-sequence has returned its report to caller 1
ValidationReported ==
    response[1].operation = "validate_sequence" /\ response[1].status = 200

\* C11: validation has no effect and no memory: validate-step and
\* validate-sequence leave the space they are given (and the copy the
\* validator is called on) with the points, lines, circles and history it had
\* on entry, and a step validated again later in the same run gets the verdict
\* it got before.
C11_ValidationIsPure ==
    /\ response[1].operation = "validate_step" => ValidatedSpace = entry_space[1]
    /\ InValidateSequence =>
          /\ heap[initial_construction_space[1]] = entry_space[1]
          /\ heap[current_space[1]] = entry_space[1]
          /\ \A j, k \in DOMAIN validation_results[1] :
                validation_results[1][j].step = validation_results[1][k].step
                   => validation_results[1][j].is_valid = validation_results[1][k].is_valid

\* validate-sequence validated the same add_point step three times, then returned
C11_Witness ==
    /\ ValidationReported
    /\ Len(validation_results[1]) = 3
    /\ \A k \in 1..3 :
          validation_results[1][k].step = ConstructionStep("add_point", <<>>, MetaA)

\* the verdict the validator gives a step against a space, when the engine answers
Validate(space, step) ==
    validate_construction(space, step, rust_binary_path, [kind |-> "ok", found |-> 0]).is_valid

\* C12: validate-sequence judges every step against the initial snapshot
\* (verdict i is Validate(initial space, step i)), records results for steps
\* 1..k where k is the first invalid step (all steps if none is invalid), and
\* reports overall_valid as the conjunction of the recorded verdicts and
\* valid_steps + invalid_steps as the number of recorded results.
C12_ValidatedAgainstInitialSnapshot ==
    LET results == validation_results[1]
    IN  /\ Len(results) <= total_steps[1] \/ ~InValidateSequence
        /\ \A k \in DOMAIN results :
              /\ results[k].step_number = k
              /\ results[k].is_valid = Validate(entry_space[1], results[k].step)
              /\ k < Len(results) => results[k].is_valid
        /\ ValidationReported =>
              LET report == response[1].validation_results
                  summary == response[1].summary
              IN  /\ report = results
                  /\ response[1].overall_valid = (\A k \in DOMAIN report : report[k].is_valid)
                  /\ summary.valid_steps + summary.invalid_steps = Len(report)
                  /\ summary.invalid_steps <= 1
                  /\ response[1].overall_valid => Len(report) = total_steps[1]

\* a sequence of 3 steps whose second step is the first invalid one
C12_Witness ==
    /\ ValidationReported
    /\ total_steps[1] = 3
    /\ Len(response[1].validation_results) = 2
    /\ response[1].validation_results[1].is_valid
    /\ ~response[1].validation_results[2].is_valid
    /\ ~response[1].overall_valid

---------------------------------------------------------------------------
(* Termination and the report of execute-sequence *)

\* every step of caller 1's sequence was applied
Completed ==
    /\ Len(execution_results[1]) = total_steps[1]
    /\ \A k \in DOMAIN execution_results[1] : execution_results[1][k].success

\* C13 (as claimed): every execute-sequence run eventually returns, in exactly
\* one of two terminal states: Completed, one success result per step, or
\* Halted, the last recorded result being the failure; once Halted no later
\* step is executed.
C13_RunReachesTerminalState ==
    /\ [](Reported => (Completed /\ ~Halted) \/ (Halted /\ ~Completed))
    /\ [][Halted => execution_results'[1] = execution_results[1]
                      /\ attempted'[1] = attempted[1]]_vars
    /\ (pc[1] = "execute") ~> Reported

\* C13 without the engine: the same, for runs in fallback mode
C13_FallbackRunReachesTerminalState ==
    /\ [](Reported => (Completed /\ ~Halted) \/ (Halted /\ ~Completed))
    /\ [][Halted => execution_results'[1] = execution_results[1]
                      /\ attempted'[1] = attempted[1]]_vars
    /\ (pc[1] = "execute" /\ ~rust_binary_path) ~> Reported

\* C14: overall_success is the AND of the recorded results: it is true exactly
\* when no recorded result is a failure, which is when every step of the
\* sequence was applied; successful_steps + failed_steps is the number of
\* recorded results and failed_steps is at most 1.
C14_OverallSuccessIsConjunction ==
    Reported =>
        LET report == response[1].execution_results
            summary == response[1].summary
            failures == {k \in DOMAIN report : ~report[k].success}
        IN  /\ summary.overall_success = (failures = {})
            /\ summary.overall_success = Completed
            /\ summary.successful_steps + summary.failed_steps = Len(report)
            /\ summary.failed_steps = Cardinality(failures)
            /\ summary.failed_steps <= 1

\* a run of 3 steps that failed at its last step: as many results as steps, not a success
C14_Witness ==
    /\ Reported
    /\ total_steps[1] = 3
    /\ Len(response[1].execution_results) = 3
    /\ ~response[1].execution_results[3].success
    /\ response[1].summary.successful_steps = 2
    /\ ~response[1].summary.overall_success

---------------------------------------------------------------------------
(* Spaces as values: copies, aliases and callers *)

\* C15 (as claimed): no bridge operation writes to the space it is given: a
\* space object that exists keeps its points, lines, circles and history
\* through every step, and the object the add-point endpoint hands to the
\* bridge still has, after the call, the value the caller sent.
C15_NoSpaceMutatedInPlace ==
    /\ [][\A r \in DOMAIN heap : heap'[r] = heap[r]]_vars
    /\ [](response[1].operation = "add_point" /\ calls[1] = 1
             => heap[initial_construction_space[1]] = entry_space[1])

\* C16: the space is copied when it enters execute-sequence or
\* validate-sequence: during the run and after it, completed or halted, the
\* handler's initial_construction_space and the caller's own value are what
\* they were on entry; the steps' effects are in the final space only.
C16_InitialSpaceCopied ==
    /\ InExecuteSequence \/ InValidateSequence =>
          /\ heap[initial_construction_space[1]] = entry_space[1]
          /\ client_space[1] = entry_space[1]
          /\ current_space[1] # initial_construction_space[1]
    /\ Reported => response[1].final_construction_space = applied_space[1]

\* a fallback run that applied two steps and then halted, its final space not the initial one
C16_Witness ==
    /\ Reported
    /\ ~rust_binary_path
    /\ Halted
    /\ Len(execution_results[1]) = 3
    /\ response[1].final_construction_space # entry_space[1]
    /\ heap[initial_construction_space[1]] = entry_space[1]

\* a space with its generated identifiers left out: the objects by their other
\* fields, the number of each kind, the history by action and number created
Anonymous(space) ==
    [points |-> {[space.points[id] EXCEPT !.id = None] : id \in DOMAIN space.points},
     lines |-> {[space.lines[id] EXCEPT !.id = None] : id \in DOMAIN space.lines},
     circles |-> {[space.circles[id] EXCEPT !.id = None] : id \in DOMAIN space.circles},
     counts |-> <<Cardinality(DOMAIN space.points), Cardinality(DOMAIN space.lines),
                  Cardinality(DOMAIN space.circles)>>,
     history |-> [k \in DOMAIN space.history |->
                    [action |-> space.history[k].action,
                     created |-> Len(space.history[k].created)]]]

\* two entries of a report that differ at most in generated identifiers
SameResult(r, q) ==
    /\ r.step_number = q.step_number
    /\ r.step = q.step
    /\ r.success = q.success
    /\ r.error = q.error
    /\ r.message = q.message
    /\ r.result.type = q.result.type
    /\ Len(r.result.created_id) = Len(q.result.created_id)
    /\ [k \in DOMAIN r.result.intersections |-> [r.result.intersections[k] EXCEPT !.id = None]]
          = [k \in DOMAIN q.result.intersections |->
                [q.result.intersections[k] EXCEPT !.id = None]]

\* the report and final space are those of the same steps run alone from the
\* entry space: entries k.. of the report continue a run alone that has
\* produced the entries solo and holds space cs of heap h
RECURSIVE RunsAlone(_, _, _, _, _, _, _)
RunsAlone(report, final, k, solo, h, cs, n) ==
    IF k > Len(report)
    THEN /\ Anonymous(h[cs]) = Anonymous(final)
         /\ \A j \in DOMAIN solo :
               solo[j].success =>
                  Anonymous(h[solo[j].result.updated_space])
                     = Anonymous(report[j].result.updated_space)
    ELSE \E reply \in RepliesFor(rust_binary_path) :
            LET ex == _execute_construction_step(report[k].step, h, cs,
                                                 rust_binary_path, n, reply)
                r == ExecutionResult(k - 1, report[k].step, ex)
            IN  /\ SameResult(r, report[k])
                /\ RunsAlone(report, final, k + 1, Append(solo, r), ex.out.heap,
                             UpdatedCurrentSpace(cs, ex), ex.out.uuid_count)

\* the identifiers a caller's run reports as created
OwnIds(c) ==
    LET ids == CreatedIds(execution_results[c])
    IN  UNION {Range(ids[k]) : k \in DOMAIN ids}

\* C17: two execute-sequence runs of independent callers, interleaved at
\* step boundaries, each have the report and the final space they have when
\* run alone (generated identifiers apart), during the run and after it; a
\* run's space holds the objects it entered with and those the run itself
\* created, never one created by the other run.
C17_RunsDoNotInterfere ==
    \A c \in Callers :
        pc[c] = "execute" \/ response[c].operation = "execute_sequence" =>
            LET reported == response[c].operation = "execute_sequence"
                space == heap[current_space[c]]
                report == IF reported THEN response[c].execution_results
                          ELSE SerializedResults(execution_results[c], heap)
                final == IF reported THEN response[c].final_construction_space ELSE space
            IN  /\ RunsAlone(report, final, 1, <<>>, <<entry_space[c], entry_space[c]>>, 2, 0)
                /\ space = final
                /\ heap[initial_construction_space[c]] = entry_space[c]
                /\ AllIds(space) \subseteq AllIds(entry_space[c]) \cup OwnIds(c)
                /\ \A d \in Callers \ {c} : OwnIds(c) \cap OwnIds(d) = {}

\* both runs have returned, in fallback mode, each after two applied steps, and
\* they were interleaved: caller 1 made the first and the third identifier
C17_Witness ==
    /\ ~rust_binary_path
    /\ \A c \in Callers :
          /\ response[c].operation = "execute_sequence"
          /\ response[c].summary.successful_steps = 2
    /\ {Uuid(1), Uuid(3)} \subseteq OwnIds(1)
    /\ OwnIds(2) # {}
    /\ entry_space[1] # entry_space[2]

\* every line's two endpoints, and every circle's center and radius point, are
\* distinct and are points of the space
ReferentialIntegrity(space) ==
    /\ \A id \in DOMAIN space.lines :
          /\ space.lines[id].point1_id # space.lines[id].point2_id
          /\ {space.lines[id].point1_id, space.lines[id].point2_id} \subseteq DOMAIN space.points
    /\ \A id \in DOMAIN space.circles :
          /\ space.circles[id].center_id # space.circles[id].radius_point_id
          /\ {space.circles[id].center_id, space.circles[id].radius_point_id}
                \subseteq DOMAIN space.points

\* C18: referential integrity and distinctness are preserved: when the space a
\* run entered with has them, so has the space after every applied step, the
\* space each result reports, and the final space returned, by a completed run
\* and by a halted one; and so has the space an add-point call returns.
C18_ReferentialIntegrityPreserved ==
    ReferentialIntegrity(entry_space[1]) =>
        /\ InExecuteSequence =>
              /\ ReferentialIntegrity(heap[current_space[1]])
              /\ \A k \in DOMAIN execution_results[1] :
                    execution_results[1][k].success =>
                       ReferentialIntegrity(heap[execution_results[1][k].result.updated_space])
        /\ Reported => ReferentialIntegrity(response[1].final_construction_space)
        /\ response[1].operation = "add_point" /\ response[1].status = 200 =>
              ReferentialIntegrity(response[1].construction_space)

\* a halted run has returned: it applied a construct-line or construct-circle
\* step and then met a circle whose center and radius point are the same point
C18_Witness ==
    /\ Reported
    /\ Halted
    /\ \E k \in DOMAIN execution_results[1] :
          /\ execution_results[1][k].success
          /\ execution_results[1][k].step.step_type \in {"construct_line", "construct_circle"}
    /\ LET last == execution_results[1][Len(execution_results[1])]
       IN  /\ last.step.step_type = "construct_circle"
           /\ last.step.dependencies = <<"A", "A">>
    /\ Cardinality(DOMAIN response[1].final_construction_space.lines)
         + Cardinality(DOMAIN response[1].final_construction_space.circles) = 3

\* two spaces with the same points, lines and circles
SameObjects(space, other) ==
    /\ space.points = other.points
    /\ space.lines = other.lines
    /\ space.circles = other.circles

\* the fallback find_intersections called on space r of the heap with any two
\* identifiers returns no intersection and a space with the objects of r
FallbackFindsNothing(r) ==
    \A obj1_id \in DepNames \cup AllIds(heap[r]), obj2_id \in DepNames \cup AllIds(heap[r]) :
        \A reply \in RepliesFor(FALSE) :
            LET out == find_intersections(heap, r, obj1_id, obj2_id, FALSE, uuid_count, reply)
            IN  /\ out.ok
                /\ out.intersections = <<>>
                /\ SameObjects(out.heap[out.space], heap[r])

\* the step just recorded by caller 1 is a find-intersections step that was applied
FindIntersectionsApplied ==
    /\ Len(execution_results'[1]) = Len(execution_results[1]) + 1
    /\ LET last == execution_results'[1][Len(execution_results'[1])]
       IN  last.success /\ last.step.step_type = "find_intersections"

\* C19: in fallback mode find-intersections, on any space and any two object
\* identifiers, returns an empty intersection set and a space whose points,
\* lines and circles are unchanged: so for the operation called on every space
\* the program holds, and so for every find-intersections step a run applies.
C19_FallbackIntersectionsEmpty ==
    /\ [](~rust_binary_path => \A r \in DOMAIN heap : FallbackFindsNothing(r))
    /\ [][~rust_binary_path /\ FindIntersectionsApplied =>
            LET last == execution_results'[1][Len(execution_results'[1])]
            IN  /\ last.result.intersections = <<>>
                /\ SameObjects(heap'[last.result.updated_space], heap[current_space[1]])
                /\ SameObjects(heap'[current_space'[1]], heap[current_space[1]])]_vars

\* a fallback run on the space with line L and circle K has returned, having
\* applied the step that asks for their intersections: none was reported
C19_Witness ==
    /\ ~rust_binary_path
    /\ Reported
    /\ entry_space[1] = SpaceABLK
    /\ \E k \in DOMAIN execution_results[1] :
          /\ execution_results[1][k].success
          /\ execution_results[1][k].step.step_type = "find_intersections"
          /\ execution_results[1][k].step.dependencies = <<"L", "K">>
          /\ response[1].execution_results[k].result.intersections = <<>>

\* C20: the health-check tells fallback mode from an available and healthy
\* delegated service: the result a healthy delegated service gives (success,
\* engine available) is never the result given in fallback mode.
C20_HealthCheckTellsFallback ==
    response[1].operation = "health" =>
        (response[1].success /\ response[1].data.engine_available => rust_binary_path)

---------------------------------------------------------------------------
(* Properties of delegation *)

\* the operations the bridge performs directly when it has no engine
FallbackOperations ==
    {"add_point", "construct_line", "construct_circle", "find_intersections", "validate_step"}

\* C21: when an engine is configured but its process cannot be started, the
\* operation is performed by the fallback instead of failing: the standalone
\* operations answer 200, and the step of execute-sequence is applied.
C21_UnreachableServiceFallsBack ==
    engine_reply[1] = "spawn_failed" =>
        /\ response[1].operation \in FallbackOperations => response[1].status = 200
        /\ InExecuteSequence => ~Halted

\* C22: a delegated call never hangs the caller: a handler waiting for the
\* engine eventually leaves the wait, so every execute-sequence and
\* validate-sequence run in delegated mode eventually returns a response.
C22_DelegatedCallEnds ==
    /\ (pc[1] = "blocked") ~> (pc[1] # "blocked")
    /\ (rust_binary_path /\ pc[1] \in {"execute", "validate"}) ~> (pc[1] = "done")

\* caller 1 is inside a sequence handler, or has that handler's response
InSequenceHandler ==
    \/ pc[1] \in {"execute", "validate", "blocked"}
    \/ response[1].operation \in {"execute_sequence", "validate_sequence"}

\* step results the handler of caller 1 has recorded
RecordedResults == Len(execution_results[1]) + Len(validation_results[1])

\* a step of caller 1 whose delegated call has given no result: the call has
\* not returned, or validate-sequence answered its failure with 422
StepWithoutResult ==
    IF \/ pc[1] = "blocked"
       \/ response[1].operation = "validate_sequence" /\ response[1].status = 422
    THEN 1 ELSE 0

\* C23 as stated: during execute-sequence and validate-sequence the number of
\* requests sent to the engine never exceeds the number of recorded step results.
C23_RequestsWithinRecordedResults ==
    InSequenceHandler => engine_requests[1] <= RecordedResults

\* C23: each step triggers at most one delegated call: the requests sent never
\* exceed the steps started (the recorded results plus the one step whose call
\* gave no result), a step adds at most one request, and after a failed call
\* no request is sent again.
C23_OneCallPerStep ==
    /\ [](InSequenceHandler => engine_requests[1] <= RecordedResults + StepWithoutResult)
    /\ [][InSequenceHandler' => engine_requests'[1] <= engine_requests[1] + 1]_vars
    /\ [][InSequenceHandler /\ engine_reply[1] \in FailureKinds
             => engine_requests'[1] = engine_requests[1]]_vars

\* a delegated execute-sequence run has returned after three steps, each with
\* one request, the third of which failed
C23_Witness ==
    /\ rust_binary_path
    /\ Reported
    /\ Len(execution_results[1]) = 3
    /\ engine_requests[1] = 3
    /\ engine_reply[1] \in FailureKinds
    /\ Halted

\* two identifiers that construct-line and construct-circle must refuse on a
\* space: one of them is no point of it, or they are the same
Unresolvable(space, ids) ==
    \/ ids[1] \notin DOMAIN space.points
    \/ ids[2] \notin DOMAIN space.points
    \/ ids[1] = ids[2]

\* the step just recorded by caller 1 is a construct-line or construct-circle
\* step whose two identifiers the space it ran on cannot resolve
UnresolvableStepRecorded ==
    /\ Len(execution_results'[1]) = Len(execution_results[1]) + 1
    /\ LET last == execution_results'[1][Len(execution_results'[1])]
       IN  /\ last.step.step_type \in {"construct_line", "construct_circle"}
           /\ Len(last.step.dependencies) = 2
           /\ Unresolvable(heap[current_space[1]], last.step.dependencies)

\* the object a line or circle endpoint reports as created
CreatedObject ==
    LET space == response[1].construction_space
        id == response[1].created_id[1]
    IN  IF response[1].operation = "construct_line" THEN space.lines[id]
        ELSE space.circles[id]

\* C24: construct-line and construct-circle reject a nonexistent point
\* identifier and two identical identifiers before any delegation: such a step
\* of execute-sequence fails with no request sent, no identifier generated and
\* the space as it was; a line or circle endpoint that sent no request in
\* delegated mode answers the client error 422 and leaves the space alone, and
\* one that answers 200 created an object on two distinct points of the space.
C24_RejectedBeforeDelegation ==
    /\ [][UnresolvableStepRecorded =>
            LET last == execution_results'[1][Len(execution_results'[1])]
            IN  /\ ~last.success
                /\ last.error # ""
                /\ engine_requests'[1] = engine_requests[1]
                /\ uuid_count' = uuid_count
                /\ heap'[current_space'[1]] = heap[current_space[1]]]_vars
    /\ [](response[1].operation \in {"construct_line", "construct_circle"} =>
            /\ rust_binary_path /\ engine_requests[1] = 0 =>
                  /\ response[1].status = 422
                  /\ heap[initial_construction_space[1]] = entry_space[1]
                  /\ Len(heap) = 1
            /\ response[1].status = 200 =>
                  /\ ~Unresolvable(entry_space[1], CreatedObject.dependencies)
                  /\ rust_binary_path => engine_requests[1] = 1)

\* a delegated run has returned: its first step was sent to the engine and
\* applied, its second, a line or circle on a point that does not exist, was
\* refused without a request
C24_Witness ==
    /\ rust_binary_path
    /\ Reported
    /\ Halted
    /\ Len(execution_results[1]) = 2
    /\ engine_requests[1] = 1
    /\ execution_results[1][2].step.step_type \in {"construct_line", "construct_circle"}
    /\ execution_results[1][2].step.dependencies = <<"A", "Z">>

\* the kind of a failed bridge call as its caller gets it: the class of the
\* exception raised, and the status the endpoint answers with
ErrorKind(out) == <<out.kind, GeometryEndpointResponse("construct_line", out).status>>

\* C25: referential failures and computation failures are distinguishable
\* kinds: when a line request was refused for its identifiers, the error of a
\* line request on the same space that fails in the engine (rejected,
\* unparseable output, unreachable) has another kind.
C25_FailureKindsDiffer ==
    /\ rust_binary_path
    /\ response[1].operation = "construct_line"
    /\ response[1].status # 200
    /\ engine_requests[1] = 0
    => \A refused \in PairInputs, line_data \in PairInputs, reply \in Replies :
          LET referential == construct_line(<<entry_space[1]>>, 1, refused[1], refused[2],
                                            None, TRUE, 0, reply)
              computation == construct_line(<<entry_space[1]>>, 1, line_data[1], line_data[2],
                                            None, TRUE, 0, reply)
          IN  /\ ~referential.ok /\ ~SentRequest(referential, TRUE)
              /\ ~computation.ok /\ SentRequest(computation, TRUE)
              => ErrorKind(referential) # ErrorKind(computation)

\* C26: no computation error is silently dropped: when the engine process of a
\* delegated call failed, the step of execute-sequence it was made for is
\* recorded as failed with a message and the run is halted, a standalone
\* operation answers with an error, and the health-check reports failure.
C26_NoComputationErrorDropped ==
    engine_reply[1] \in FailureKinds =>
        /\ InExecuteSequence =>
              /\ Halted
              /\ execution_results[1][Len(execution_results[1])].error # ""
        /\ response[1].operation \in FallbackOperations \cup {"create_construction_space"} =>
              response[1].status # 200
        /\ response[1].operation = "health" => ~response[1].success

---------------------------------------------------------------------------
(* Properties of the wire format *)

---------------------------------------------------------------------------
(* Properties of the element collection *)

\* caller 1 has the answer of unlock-element
UnlockAnswered == response[1].operation = "unlock_element"

\* the space has the counts of the triangle pattern
TriangleCounts(space) ==
    /\ Cardinality(DOMAIN space.lines) >= 3
    /\ Cardinality(DOMAIN space.circles) >= 2
    /\ Cardinality(DOMAIN space.points) >= 3

\* C28: every space with at least 3 lines, 2 circles and 3 points matches the
\* equilateral-triangle pattern, in the construction analysis and in the
\* unlock check.
C28_TrianglePatternByCounts ==
    UnlockAnswered /\ TriangleCounts(client_space[1]) =>
        /\ \E k \in DOMAIN response[1].construction_analysis.identified_patterns :
              response[1].construction_analysis.identified_patterns[k] = "equilateral_triangle"
        /\ response[1].completed_construction = "equilateral_triangle" =>
              \E k \in DOMAIN response[1].unlocked_elements :
                 response[1].unlocked_elements[k].id = "equilateral_triangle"

\* C29: unlock-element never unlocks an element without its prerequisites:
\* every element unlocked has all its required elements among those the
\* player owns, and with an empty space no element that has requirements is
\* unlocked.
C29_UnlockNeedsPrerequisites ==
    UnlockAnswered =>
        \A k \in DOMAIN response[1].unlocked_elements :
            LET element == response[1].unlocked_elements[k]
            IN  /\ Range(element.unlock_requirements) \subseteq PlayerElements
                /\ client_space[1] = ConstructionSpace => element.unlock_requirements = <<>>

---------------------------------------------------------------------------
(* Properties of the health-check *)

\* C30: the bridge health-check never raises: a probe whose engine process
\* fails, or answers a status other than healthy, yields false, and the health
\* endpoint then answers 200 with success = false and engine_available =
\* false; it reports health in delegated mode only for a probe answered healthy.
C30_HealthCheckNeverRaises ==
    /\ \A reply \in Replies :
          LET r == _execute_rust_command([command |-> "health_check"], 0, reply)
          IN  health_check(TRUE, reply) <=> r.ok /\ r.result.status = "healthy"
    /\ response[1].operation = "health" =>
          /\ response[1].status = 200
          /\ response[1].data.engine_available = response[1].success
          /\ engine_reply[1] \in FailureKinds => ~response[1].success
          /\ rust_binary_path /\ response[1].success => engine_reply[1] = "ok"

\* the health endpoint has answered a probe whose engine process failed
C30_Witness ==
    /\ rust_binary_path
    /\ response[1].operation = "health"
    /\ engine_reply[1] = "unparseable"
    /\ response[1].status = 200
    /\ ~response[1].success
    /\ ~response[1].data.engine_available

---------------------------------------------------------------------------
(* Properties of create-construction-space *)

\* C31: create-construction-space always answers with a well-formed space and
\* never with an error: in fallback mode, and whenever the engine process of
\* the delegated call failed, the space is the empty one (no points, no
\* lines, no circles, empty history).
C31_CreateSpaceNeverFails ==
    response[1].operation = "create_construction_space" =>
        /\ response[1].status = 200
        /\ ReferentialIntegrity(response[1].construction_space)
        /\ ~rust_binary_path \/ engine_reply[1] \in FailureKinds =>
              /\ response[1].construction_space = ConstructionSpace
              /\ DOMAIN response[1].construction_space.points = {}
              /\ DOMAIN response[1].construction_space.lines = {}
              /\ DOMAIN response[1].construction_space.circles = {}
              /\ response[1].construction_space.history = <<>>

\* a delegated create-construction-space whose engine process exited non-zero
\* has been answered
C31_Witness ==
    /\ rust_binary_path
    /\ response[1].operation = "create_construction_space"
    /\ engine_reply[1] = "nonzero_exit"
    /\ response[1].status = 200
    /\ response[1].construction_space = ConstructionSpace

---------------------------------------------------------------------------
(* Validator against executor *)

\* what executing the step against the space does in fallback mode
FallbackExecution(space, step) ==
    _execute_construction_step(step, <<space>>, 1, FALSE, uuid_count,
                               CHOOSE reply \in RepliesFor(FALSE) : TRUE).out

\* C32: validator and executor agree in fallback mode: a step validate-step
\* reports admissible against a space executes successfully against it and a
\* step it reports inadmissible fails; and validate-sequence never reports
\* valid a first step that execute-sequence would halt on.
C32_ValidatorAgreesWithExecutor ==
    /\ Answered /\ ~rust_binary_path =>
          response[1].is_valid = FallbackExecution(ValidatedSpace, response[1].step).ok
    /\ ~rust_binary_path /\ validation_results[1] # <<>> =>
          (validation_results[1][1].is_valid
              => FallbackExecution(entry_space[1], validation_results[1][1].step).ok)

---------------------------------------------------------------------------
(* The spaces recorded in the execute-sequence report *)

\* C33: in the execute-sequence report, the updated space recorded for step i
\* is the space as it was immediately after step i: it holds no object that a
\* later step j > i created, and a later step that created an object shows a
\* recorded space different from step i's.
C33_RecordedSpaceIsSnapshot ==
    Reported =>
        LET report == response[1].execution_results
        IN  \A i, j \in DOMAIN report :
               i < j /\ report[i].success /\ report[j].success =>
                  /\ Range(report[j].result.created_id)
                        \cap AllIds(report[i].result.updated_space) = {}
                  /\ report[j].result.created_id # <<>> =>
                        report[i].result.updated_space # report[j].result.updated_space

---------------------------------------------------------------------------
(* Frame of the creating operations in fallback mode *)

\* the mapping a creating step adds to
OwnMapping(space, type) ==
    CASE type = "point" -> space.points
      [] type = "line" -> space.lines
      [] type = "circle" -> space.circles

\* after is before plus exactly one object of the type, stored under the fresh
\* identifier id; nothing else differs
OneObjectAdded(before, after, type, id) ==
    /\ id \notin AllIds(before)
    /\ DOMAIN OwnMapping(after, type) = DOMAIN OwnMapping(before, type) \cup {id}
    /\ OwnMapping(after, type)[id].id = id
    /\ \A k \in DOMAIN OwnMapping(before, type) :
          OwnMapping(after, type)[k] = OwnMapping(before, type)[k]
    /\ type # "point" => after.points = before.points
    /\ type # "line" => after.lines = before.lines
    /\ type # "circle" => after.circles = before.circles
    /\ after.history = before.history

\* the new line or circle records the two identifiers in the given order
RecordsItsPoints(after, type, id, deps) ==
    /\ type = "line" =>
          /\ after.lines[id].point1_id = deps[1]
          /\ after.lines[id].point2_id = deps[2]
          /\ after.lines[id].dependencies = <<deps[1], deps[2]>>
    /\ type = "circle" =>
          /\ after.circles[id].center_id = deps[1]
          /\ after.circles[id].radius_point_id = deps[2]
          /\ after.circles[id].dependencies = <<deps[1], deps[2]>>

\* the step just recorded by caller 1 was applied and created an object
CreatingStepApplied ==
    /\ Len(execution_results'[1]) = Len(execution_results[1]) + 1
    /\ LET last == execution_results'[1][Len(execution_results'[1])]
       IN  last.success /\ last.result.type \in {"point", "line", "circle"}

\* C34: in fallback mode each creating operation changes only its own mapping
\* and adds exactly one entry under a fresh identifier: add-point only points,
\* construct-line only lines, construct-circle only circles; every object
\* already in the space is kept with identical fields, and a new line or circle
\* records its two point identifiers, in the given order, as its endpoints
\* (center and radius point) and as its dependency list.
C34_CreatingOperationFrame ==
    [][/\ ~rust_binary_path /\ CreatingStepApplied =>
            LET last == execution_results'[1][Len(execution_results'[1])]
                before == heap[current_space[1]]
                after == heap'[last.result.updated_space]
                id == last.result.created_id[1]
            IN  /\ Len(last.result.created_id) = 1
                /\ OneObjectAdded(before, after, last.result.type, id)
                /\ RecordsItsPoints(after, last.result.type, id, last.step.dependencies)
       /\ /\ ~rust_binary_path
          /\ response'[1] # response[1]
          /\ response'[1].operation = "add_point"
          /\ response'[1].status = 200
          => OneObjectAdded(client_space[1], response'[1].construction_space, "point",
                            response'[1].created_id)
       /\ /\ ~rust_binary_path
          /\ response'[1] # response[1]
          /\ response'[1].operation \in {"construct_line", "construct_circle"}
          /\ response'[1].status = 200
          => LET type == IF response'[1].operation = "construct_line"
                         THEN "line" ELSE "circle"
             IN  OneObjectAdded(client_space[1], response'[1].construction_space, type,
                                response'[1].created_id[1])]_vars

\* a fallback run has applied construct_line(A, B): the space after it holds the
\* new line with endpoints A, B and the points it had before
C34_Witness ==
    /\ ~rust_binary_path
    /\ InExecuteSequence
    /\ execution_results[1] # <<>>
    /\ LET last == execution_results[1][Len(execution_results[1])]
       IN  /\ last.success
           /\ last.result.type = "line"
           /\ last.step.dependencies = <<"A", "B">>
           /\ last.result.created_id[1] \in DOMAIN applied_space[1].lines
           /\ applied_space[1].lines[last.result.created_id[1]].point1_id = "A"
           /\ applied_space[1].lines[last.result.created_id[1]].point2_id = "B"
           /\ applied_space[1].points = entry_space[1].points

---------------------------------------------------------------------------
(* Steps the executor rejects before any bridge operation *)

KnownStepTypes == {"add_point", "construct_line", "construct_circle", "find_intersections"}

\* caller 1's execute loop has just recorded a result
StepRecorded ==
    /\ pc[1] = "execute"
    /\ Len(execution_results'[1]) = Len(execution_results[1]) + 1

\* the step just recorded left everything but the record as it was: no bridge
\* operation ran (no request, no identifier generated) and no space changed
RejectedUntouched ==
    /\ heap' = heap
    /\ uuid_count' = uuid_count
    /\ current_space' = current_space
    /\ applied_space' = applied_space
    /\ engine_requests' = engine_requests

\* C35: a step whose step_type is none of add_point, construct_line,
\* construct_circle, find_intersections (the given_points marker of the
\* templates included) is rejected by execute-sequence with an
\* unknown-step-type failure: the run halts at that step, no bridge operation is
\* invoked for it, and the space is unchanged.
C35_UnknownStepTypeRejected ==
    /\ [][StepRecorded =>
            LET last == execution_results'[1][Len(execution_results'[1])]
            IN  last.step.step_type \notin KnownStepTypes =>
                   /\ ~last.success
                   /\ last.error = "Construction validation failed: Unknown step type: "
                                      \o last.step.step_type
                   /\ RejectedUntouched]_vars
    /\ [](\A k \in DOMAIN execution_results[1] :
             execution_results[1][k].step.step_type \notin KnownStepTypes =>
                /\ k = Len(execution_results[1])
                /\ ~execution_results[1][k].success
                /\ Reported => /\ Len(response[1].execution_results) = k
                               /\ ~response[1].summary.overall_success)

\* a run of two steps whose first step is the given_points marker has returned:
\* halted at step 1, the final space the initial one
C35_Witness ==
    /\ Reported
    /\ total_steps[1] = 2
    /\ Len(response[1].execution_results) = 1
    /\ response[1].execution_results[1].step.step_type = "given_points"
    /\ ~response[1].execution_results[1].success
    /\ response[1].final_construction_space = entry_space[1]

\* the structural errors _execute_construction_step raises for a dependency count
ArityErrors ==
    {"Construction validation failed: Line requires exactly 2 points",
     "Construction validation failed: Circle requires exactly 2 points",
     "Construction validation failed: Intersection requires exactly 2 geometric objects"}

\* C36: in execute-sequence a construct_line, construct_circle or
\* find_intersections step whose dependency count is not exactly 2 fails with a
\* construction-validation error before any bridge operation is invoked, in
\* delegated and in fallback mode: extra dependencies are not ignored, no
\* request is sent, no identifier is generated and the space is unchanged.
C36_WrongArityRejectedByExecutor ==
    [][StepRecorded =>
          LET last == execution_results'[1][Len(execution_results'[1])]
          IN  /\ last.step.step_type \in TwoDependencyTypes
              /\ Len(last.step.dependencies) # 2
              => /\ ~last.success
                 /\ last.error \in ArityErrors
                 /\ RejectedUntouched]_vars

\* a delegated run on a space holding A and B has returned, halted at its first
\* step, construct_line with the three dependencies A, B, A: no request was sent
C36_Witness ==
    /\ rust_binary_path
    /\ Reported
    /\ {"A", "B"} \subseteq DOMAIN entry_space[1].points
    /\ Len(response[1].execution_results) = 1
    /\ response[1].execution_results[1].step.step_type = "construct_line"
    /\ response[1].execution_results[1].step.dependencies = <<"A", "B", "A">>
    /\ response[1].execution_results[1].error =
          "Construction validation failed: Line requires exactly 2 points"
    /\ engine_requests[1] = 0
    /\ response[1].final_construction_space = entry_space[1]

---------------------------------------------------------------------------
(* Outcome of a delegated call *)

\* the ways the engine process fails after it was started
ProcessFailures == {"nonzero_exit", "empty_output", "unparseable"}

\* the operations that take a space and answer with an updated one
SpaceOperations == {"add_point", "construct_line", "construct_circle", "find_intersections"}

\* what each bridge operation does, delegated, on the space the caller entered
\* with, for the engine reply
DelegatedOutcomes(reply) ==
    LET h == <<entry_space[1]>>
    IN  {add_point(h, 1, 0, 0, None, TRUE, uuid_count, reply),
         construct_line(h, 1, "A", "B", None, TRUE, uuid_count, reply),
         construct_circle(h, 1, "A", "B", None, TRUE, uuid_count, reply),
         find_intersections(h, 1, "L", "K", TRUE, uuid_count, reply)}

---------------------------------------------------------------------------
(* The delegated protocol *)

\* the commands the bridge sends
ProtocolCommands ==
    {"health_check", "create_construction_space", "add_point", "construct_line",
     "construct_circle", "find_intersections", "validate_construction"}

\* the request the bridge sends for a step of execute-sequence run on the space
StepCommand(step, space) ==
    LET deps == step.dependencies
        label == DictGet(step.metadata, "label", None)
    IN  CASE step.step_type = "add_point" ->
              [command |-> "add_point", construction_space |-> SpaceDict(space),
               x |-> DictGet(step.metadata, "x", 0), y |-> DictGet(step.metadata, "y", 0),
               label |-> label]
          [] step.step_type = "construct_line" ->
              [command |-> "construct_line", construction_space |-> SpaceDict(space),
               point1_id |-> deps[1], point2_id |-> deps[2], label |-> label]
          [] step.step_type = "construct_circle" ->
              [command |-> "construct_circle", construction_space |-> SpaceDict(space),
               center_id |-> deps[1], radius_point_id |-> deps[2], label |-> label]
          [] step.step_type = "find_intersections" ->
              [command |-> "find_intersections", construction_space |-> SpaceDict(space),
               obj1_id |-> deps[1], obj2_id |-> deps[2]]

\* C38: the delegated protocol is stateless per call: the request of every
\* step carries the complete current space and one of the seven protocol
\* commands, the space a step returns is the one deserialized from the
\* engine's response to that request, and the next call uses exactly that
\* space: the current space of a delegated run is always the space of the last
\* response (the initial space before the first), and a caller threading
\* add-point calls holds the space of the last response.
C38_StatelessProtocol ==
    /\ [][rust_binary_path /\ StepRecorded =>
            LET last == execution_results'[1][Len(execution_results'[1])]
                space == heap[current_space[1]]
            IN  /\ engine_requests'[1] # engine_requests[1] =>
                      LET command == StepCommand(last.step, space)
                      IN  /\ engine_requests'[1] = engine_requests[1] + 1
                          /\ command.command \in ProtocolCommands
                          /\ ParseConstructionSpace(command.construction_space) = space
                          /\ last.success =>
                                \E reply \in Replies :
                                   LET r == _execute_rust_command(command, uuid_count, reply)
                                   IN  /\ r.ok
                                       /\ heap'[last.result.updated_space] =
                                             ParseConstructionSpace(
                                                r.result.construction_space)
                /\ last.success =>
                      /\ engine_requests'[1] = engine_requests[1] + 1
                      /\ current_space'[1] = last.result.updated_space
                /\ ~last.success =>
                      /\ current_space'[1] = current_space[1]
                      /\ heap'[current_space'[1]] = space]_vars
    /\ [](rust_binary_path /\ pc[1] = "execute" => heap[current_space[1]] = applied_space[1])
    /\ [](/\ rust_binary_path
          /\ response[1].operation = "add_point"
          /\ response[1].status = 200
          => client_space[1] = response[1].construction_space)

\* a delegated run on the space with A and B has returned after construct_line
\* and construct_circle, two requests: the circle's step ran on the space the
\* line's response gave, so its recorded space holds the line and the circle
C38_Witness ==
    /\ rust_binary_path
    /\ Reported
    /\ engine_requests[1] = 2
    /\ Len(response[1].execution_results) = 2
    /\ LET report == response[1].execution_results
       IN  /\ report[1].success /\ report[2].success
           /\ report[1].result.type = "line"
           /\ report[2].result.type = "circle"
           /\ report[1].result.created_id[1] \in DOMAIN report[2].result.updated_space.lines
           /\ report[2].result.created_id[1] \in DOMAIN report[2].result.updated_space.circles
           /\ report[1].result.updated_space.circles = entry_space[1].circles
           /\ response[1].final_construction_space = report[2].result.updated_space

---------------------------------------------------------------------------
(* Properties of application startup *)

\* C39: startup attaches the graph service when it is usable: if the Neo4j
\* connection succeeded during startup, the Neo4j service is stored in the
\* application state, and a later detailed health check reports the status
\* the Neo4j health check gives, not 'unavailable'.
C39_StartupAttachesGraphService ==
    connect_returned = "True" =>
        /\ lifespan_pc = "running" => "neo4j_service" \in app_state
        /\ \A c \in Callers :
              response[c].operation = "detailed_health" =>
                 response[c].dependencies.neo4j.status # "unavailable"

====
